---- MODULE Spec2Model ----
(***************************************************************************)
(* Model of gh-report: the aggregation passes repoReport and userReport    *)
(* over the fetched PR and issue collections, relative to a Period.        *)
(*                                                                         *)
(* A *User is modelled by its login (the registry keeps one instance per   *)
(* login), a nil *User by Nil.  A time.Time is an integer; the zero        *)
(* time.Time (an absent closedAt) is 0.  A bucket (Items, a slice of       *)
(* *Item) is a sequence of item identities: the position of the item in    *)
(* the sequence the pass ranges over.                                      *)
(*                                                                         *)
(* Specifications:                                                         *)
(*   SpecRepo, SpecUser, Spec  the reports over fetched collections        *)
(*   SpecTwice                 repoReport called twice on one input        *)
(*   SpecUsers                 Users.Add on its own                        *)
(*   SpecMatch                 Period.Match                                *)
(*   SpecPeriod                NewPeriodFromMonth, NewPeriodFromWeek       *)
(*   SpecRun                   main: the fetch loop, then the report       *)
(*   SpecList                  doListOp under the rate limit               *)
(***************************************************************************)
EXTENDS Integers, Sequences, FiniteSets, TLC

\* ---- bounds of the model ------------------------------------------------
MaxPRs == 1        \* PRs fetched in the run
MaxIssues == 1     \* issues fetched in the run
MaxComments == 2   \* comments and reviews fetched in the run, over all items
MaxTime == 1       \* the timestamps of the records are 0, 2, .., 2 * MaxTime

Logins == {"alice", "bob"}
Nil == "<nil>"
UserRef == Logins \cup {Nil}
\* The timestamps the fetched records carry.  0 is the zero time.Time (an
\* absent closedAt), which lies before every reporting window.
Times == {2 * k : k \in 0..MaxTime}

\* The repositories of the run, in lexicographic order of their names.
RepoOrder == <<"o/r">>
Repos == {RepoOrder[k] : k \in 1..Len(RepoOrder)}
Numbers == 1..(MaxPRs + MaxIssues)

\* The reporting window of the run: timestamp 2 lies in it, 0 before it and
\* 4, 6, .. after it.
period == [Start |-> 1, End |-> 3]

\* ---- data model (gh.go) -------------------------------------------------
Comment == [CreatedAt : Times, User : UserRef]

SeqsUpTo(S, n) == UNION {[1..k -> S] : k \in 0..n}

\* An Item as NewItemFromPR builds it: PR is true, every other field is
\* whatever the raw record holds.  c bounds the number of its comments.
PRItem(c) ==
  [PR : {TRUE}, Repo : Repos, Number : Numbers,
   CreatedBy : UserRef, CreatedAt : Times, ClosedAt : Times,
   Comments : SeqsUpTo(Comment, c), Merged : BOOLEAN, MergedBy : UserRef]

\* An Item as NewItemFromIssue builds it: PR is false, Merged and MergedBy
\* keep their zero values.
IssueItem(c) ==
  [PR : {FALSE}, Repo : Repos, Number : Numbers,
   CreatedBy : UserRef, CreatedAt : Times, ClosedAt : Times,
   Comments : SeqsUpTo(Comment, c), Merged : {FALSE}, MergedBy : {Nil}]

RECURSIVE TotalComments(_)
TotalComments(items) ==
  IF items = << >> THEN 0
  ELSE Len(Head(items).Comments) + TotalComments(Tail(items))

\* Within one repository every PR and issue has its own number.
DistinctIDs(items) ==
  \A j, k \in 1..Len(items) :
    (items[j].Repo = items[k].Repo /\ items[j].Number = items[k].Number) => j = k

\* ---- Period (period.go) -------------------------------------------------
After(t, u) == t > u
Before(t, u) == t < u

\* A Match that takes the two boundary instants for part of the period.
MatchInclusive(p, t) == ~Before(t, p.Start) /\ ~After(t, p.End)

Match(p, t) == After(t, p.Start) /\ Before(t, p.End)

\* ---- Items.String (gh.go): the in-place sort of a bucket ----------------
\* The repo names of the items that are sorted, and the bytes of each.
SortRepos == {"a/z", "o/r", "o/ra"}
RepoBytes ==
  [r \in SortRepos |->
     CASE r = "a/z" -> <<97, 47, 122>>
       [] r = "o/r" -> <<111, 47, 114>>
       [] r = "o/ra" -> <<111, 47, 114, 97>>]

\* Go's < on strings: the first byte that differs decides, and a proper
\* prefix is less.
RECURSIVE BytesLess(_, _)
BytesLess(a, b) ==
  IF b = << >> THEN FALSE
  ELSE IF a = << >> THEN TRUE
  ELSE IF Head(a) # Head(b) THEN Head(a) < Head(b)
  ELSE BytesLess(Tail(a), Tail(b))

\* Go's < on the repo names.
RepoLess(r1, r2) == BytesLess(RepoBytes[r1], RepoBytes[r2])

\* A less function that looks at the number first.
ItemLessNumberFirst(a, b) ==
  IF a.Number # b.Number THEN a.Number < b.Number ELSE RepoLess(a.Repo, b.Repo)

\* The less function handed to sort.Slice.
ItemLess(a, b) ==
  IF a.Repo # b.Repo THEN RepoLess(a.Repo, b.Repo) ELSE a.Number < b.Number

\* The orders sort.Slice may leave the bucket in: every permutation of the
\* bucket in which no element is less than one before it (sort.Slice is not
\* stable).  all is the sequence the bucket's identities point into.
SortSlice(all, bucket) ==
  LET n == Len(bucket)
      perms == {p \in [1..n -> 1..n] : \A j, k \in 1..n : p[j] = p[k] => j = k}
      sorted(p) == \A j, k \in 1..n :
                     j < k => ~ItemLess(all[bucket[p[k]]], all[bucket[p[j]]])
  IN {[k \in 1..n |-> bucket[p[k]]] : p \in {q \in perms : sorted(q)}}

VARIABLES
  allPRs,            \* main: var allPRs Items
  allIssues,         \* main: var allIssues Items
  user,              \* main: *user, the target login ("" selects repoReport)
  pc,                \* position of the pass
  idx,               \* number of loop iterations completed in the current loop
  mergedPRs, closedIssues, updatedItems,           \* repoReport buckets
  openedPRsCount, openedIssuesCount, contributions, \* repoReport counters
  contributors, users,                             \* repoReport Users maps
  userPRs, reviewedPRs, userIssues, commentIssues  \* userReport buckets

VARIABLES
  allUsers,          \* main: allUsers := make(Users), login -> *User
  userHeap,          \* the User structs allocated so far; a *User is an index
  addLog,            \* Users.Add called on its own: arguments and results
  arg,               \* the argument of the function under call; in the
                     \* statement-by-statement pass of repoReport, the locals
                     \* of the loop body (comment index and updated)
  ret,               \* its result, None before it returns
  scan,              \* firstDayOfISOWeek: year, week, date and the day steps
                     \* taken so far, None outside it
  runNo,             \* the number of the repoReport call under way
  first,             \* what the first repoReport call produced, None before
  repos,             \* main: repos := flag.Args(), each a sequence of characters
  repoIdx,           \* main: the arguments the loop over repos has taken
  fetch,             \* the GetPRs or GetIssues call under way: page, appends
  fetchLog,          \* the GetPRs and GetIssues calls that have returned
  quota,             \* the requests the server still accepts before the reset
  listPage,          \* doListOp of GetPRs: page
  listResp,          \* the response the op of GetPRs is going to return
  subPage,           \* doListOp of NewItemFromPR: page
  reqLog,            \* the list requests sent: kind, page, accepted or not
  listRet            \* the doListOp calls that have returned: kind, error

registryVars == <<allUsers, userHeap, addLog>>
callVars == <<arg, ret, scan>>

twiceVars == <<runNo, first>>

runVars == <<repos, repoIdx, fetch, fetchLog>>

listVars == <<quota, listPage, listResp, subPage, reqLog, listRet>>

\* The state outside the reports.
auxVars == <<registryVars, callVars, twiceVars, runVars, listVars>>

vars == <<allPRs, allIssues, user, pc, idx, mergedPRs, closedIssues,
          updatedItems, openedPRsCount, openedIssuesCount, contributions,
          contributors, users, userPRs, reviewedPRs, userIssues, commentIssues,
          auxVars>>

repoVars == <<mergedPRs, closedIssues, updatedItems, openedPRsCount,
              openedIssuesCount, contributions, contributors, users>>
userVars == <<userPRs, reviewedPRs, userIssues, commentIssues>>

\* The collections, the target user and the locals of the reports.
reportVars == <<allPRs, allIssues, user, idx, repoVars, userVars>>
nonCallVars == <<reportVars, registryVars, twiceVars, runVars, listVars>>

\* A nil map, and the value of a variable that holds nothing yet.
EmptyMap == [l \in {} |-> 0]
None == [none |-> TRUE]

\* append(allPRs, allIssues...): the sequence repoReport ranges over.
allItems == allPRs \o allIssues


\* ---- repoReport: one iteration of the loop over the items ----------------
\* The accumulators the loop body updates.  panic is set when the body
\* dereferences a nil *User (i.CreatedBy.ID, comment.User.ID).
RepoAcc ==
  [contributions |-> contributions, contributors |-> contributors,
   users |-> users, openedPRsCount |-> openedPRsCount,
   openedIssuesCount |-> openedIssuesCount, updated |-> FALSE, panic |-> FALSE]

\* users[i.CreatedBy.ID] = i.CreatedBy
RepoRecordCreator(acc, i) ==
  IF i.CreatedBy = Nil THEN [acc EXCEPT !.panic = TRUE]
  ELSE [acc EXCEPT !.users = @ \cup {i.CreatedBy}]

\* A comment loop that credits the item's creator with each comment.
RECURSIVE RepoCommentsCreditCreator(_, _, _)
RepoCommentsCreditCreator(acc, i, k) ==
  IF acc.panic \/ k > Len(i.Comments) THEN acc
  ELSE LET comment == i.Comments[k]
           inPeriod == Match(period, comment.CreatedAt)
           counted == IF inPeriod
                      THEN [acc EXCEPT !.contributions = @ + 1] ELSE acc
       IN IF comment.User = Nil
          THEN [counted EXCEPT !.panic = TRUE]
          ELSE RepoCommentsCreditCreator(
                 [counted EXCEPT
                    !.contributors = IF inPeriod THEN @ \cup {i.CreatedBy} ELSE @,
                    !.updated = IF inPeriod THEN TRUE ELSE @,
                    !.users = @ \cup {comment.User}],
                 i, k + 1)

\* A comment loop that records a comment's author only when the comment is
\* in the period.
RECURSIVE RepoCommentsUsersInPeriod(_, _, _)
RepoCommentsUsersInPeriod(acc, i, k) ==
  IF acc.panic \/ k > Len(i.Comments) THEN acc
  ELSE LET comment == i.Comments[k]
           inPeriod == Match(period, comment.CreatedAt)
           counted == IF inPeriod
                      THEN [acc EXCEPT !.contributions = @ + 1] ELSE acc
       IN IF comment.User = Nil
          THEN [counted EXCEPT !.panic = TRUE]
          ELSE RepoCommentsUsersInPeriod(
                 [counted EXCEPT
                    !.contributors = IF inPeriod THEN @ \cup {comment.User} ELSE @,
                    !.updated = IF inPeriod THEN TRUE ELSE @,
                    !.users = IF inPeriod THEN @ \cup {comment.User} ELSE @],
                 i, k + 1)

\* for _, comment := range i.Comments { ... }, from comment k on.
RECURSIVE RepoComments(_, _, _)
RepoComments(acc, i, k) ==
  IF acc.panic \/ k > Len(i.Comments) THEN acc
  ELSE LET comment == i.Comments[k]
           inPeriod == Match(period, comment.CreatedAt)
           \* contributions++ comes before the dereference of comment.User
           counted == IF inPeriod
                      THEN [acc EXCEPT !.contributions = @ + 1] ELSE acc
       IN IF comment.User = Nil
          THEN [counted EXCEPT !.panic = TRUE]
          ELSE RepoComments(
                 [counted EXCEPT
                    !.contributors = IF inPeriod THEN @ \cup {comment.User} ELSE @,
                    !.updated = IF inPeriod THEN TRUE ELSE @,
                    !.users = @ \cup {comment.User}],
                 i, k + 1)

\* A creation branch with the two opened counters swapped.
RepoCreatedSwapped(acc, i) ==
  IF acc.panic \/ ~Match(period, i.CreatedAt) THEN acc
  ELSE [acc EXCEPT
          !.updated = TRUE,
          !.contributions = @ + 1,
          !.contributors = @ \cup {i.CreatedBy},
          !.openedPRsCount = IF i.PR THEN @ ELSE @ + 1,
          !.openedIssuesCount = IF i.PR THEN @ + 1 ELSE @]

\* if period.Match(i.CreatedAt) { ... }: contributions from new items.
RepoCreated(acc, i) ==
  IF acc.panic \/ ~Match(period, i.CreatedAt) THEN acc
  ELSE [acc EXCEPT
          !.updated = TRUE,
          !.contributions = @ + 1,
          !.contributors = @ \cup {i.CreatedBy},
          !.openedPRsCount = IF i.PR THEN @ + 1 ELSE @,
          !.openedIssuesCount = IF i.PR THEN @ ELSE @ + 1]

\* A routing without the else: a closed item that was touched is appended to
\* the updated bucket as well.
RepoAppendsNoElse(i, updated) ==
  (IF Match(period, i.ClosedAt)
   THEN IF i.PR
        THEN IF i.Merged THEN <<"mergedPRs">> ELSE <<"updatedItems">>
        ELSE <<"closedIssues">>
   ELSE << >>)
  \o (IF updated THEN <<"updatedItems">> ELSE << >>)

\* A routing that takes every PR closed in the period for a merged one.
RepoAppendsIgnoreMerged(i, updated) ==
  IF Match(period, i.ClosedAt)
  THEN IF i.PR THEN <<"mergedPRs">> ELSE <<"closedIssues">>
  ELSE IF updated THEN <<"updatedItems">> ELSE << >>

\* A routing that lists every item not closed in the period as updated.
RepoAppendsAlwaysUpdated(i, updated) ==
  IF Match(period, i.ClosedAt)
  THEN IF i.PR
       THEN IF i.Merged THEN <<"mergedPRs">> ELSE <<"updatedItems">>
       ELSE <<"closedIssues">>
  ELSE <<"updatedItems">>

\* if period.Match(i.ClosedAt) { ... } else { ... }: the buckets the item is
\* appended to, one entry per append, in the order of the appends.
RepoAppends(i, updated) ==
  IF Match(period, i.ClosedAt)
  THEN IF i.PR
       THEN IF i.Merged THEN <<"mergedPRs">> ELSE <<"updatedItems">>
       ELSE <<"closedIssues">>
  ELSE IF updated THEN <<"updatedItems">> ELSE << >>

\* bucket = append(bucket, i) for every append of i to the bucket called name.
RECURSIVE AppendAll(_, _, _, _)
AppendAll(bucket, name, appends, i) ==
  IF appends = << >> THEN bucket
  ELSE AppendAll(IF Head(appends) = name THEN Append(bucket, i) ELSE bucket,
                 name, Tail(appends), i)

\* A merge branch that counts the merge as a contribution.
RepoMergedByCounted(acc, i) ==
  IF ~acc.panic /\ Match(period, i.ClosedAt) /\ i.PR /\ i.Merged /\ i.MergedBy # Nil
  THEN [acc EXCEPT !.users = @ \cup {i.MergedBy},
                   !.contributors = @ \cup {i.MergedBy},
                   !.contributions = @ + 1]
  ELSE acc

\* if i.MergedBy != nil { ... }, on the merged-PR branch only.
RepoMergedBy(acc, i) ==
  IF ~acc.panic /\ Match(period, i.ClosedAt) /\ i.PR /\ i.Merged /\ i.MergedBy # Nil
  THEN [acc EXCEPT !.users = @ \cup {i.MergedBy},
                   !.contributors = @ \cup {i.MergedBy}]
  ELSE acc

\* The whole loop body for item i.
RepoBody(i) ==
  RepoMergedBy(
    RepoCreated(RepoComments(RepoRecordCreator(RepoAcc, i), i, 1), i), i)

\* The state main hands to the report: the fetched collections, and every
\* accumulator of both reports at its zero value.
\* The zero values of the locals of both reports.
ReportLocals ==
  /\ idx = 0
  /\ mergedPRs = << >> /\ closedIssues = << >> /\ updatedItems = << >>
  /\ openedPRsCount = 0 /\ openedIssuesCount = 0 /\ contributions = 0
  /\ contributors = {} /\ users = {}
  /\ userPRs = << >> /\ reviewedPRs = << >>
  /\ userIssues = << >> /\ commentIssues = << >>

\* No item fetched, no report under way.
ReportIdle ==
  /\ allPRs = << >> /\ allIssues = << >> /\ user = ""
  /\ ReportLocals

\* No user registered.
UsersIdle == allUsers = EmptyMap /\ userHeap = << >> /\ addLog = << >>

\* No function under call.
CallIdle == arg = None /\ ret = None /\ scan = None

\* The first call of the report, nothing produced yet.
TwiceIdle == runNo = 1 /\ first = None

\* No positional argument, no fetch.
RunIdle == repos = << >> /\ repoIdx = 0 /\ fetch = None /\ fetchLog = << >>

\* No list request sent.
ListIdle ==
  /\ quota = 0 /\ listPage = 0 /\ listResp = None /\ subPage = 0
  /\ reqLog = << >> /\ listRet = << >>

AuxIdle == UsersIdle /\ CallIdle /\ TwiceIdle /\ RunIdle /\ ListIdle

\* Everything but the function under call.
NonCallIdle == ReportIdle /\ UsersIdle /\ TwiceIdle /\ RunIdle /\ ListIdle

InitData ==
  /\ allPRs \in SeqsUpTo(PRItem(MaxComments), MaxPRs)
  /\ TotalComments(allPRs) <= MaxComments
  /\ allIssues \in SeqsUpTo(IssueItem(MaxComments - TotalComments(allPRs)), MaxIssues)
  /\ TotalComments(allPRs \o allIssues) <= MaxComments
  /\ DistinctIDs(allPRs \o allIssues)
  /\ ReportLocals
  /\ AuxIdle

\* main: *user == "" calls repoReport.
InitRepo == InitData /\ user = "" /\ pc = "repoReport"

\* One iteration of for _, i := range append(allPRs, allIssues...).
RepoItem ==
  /\ pc = "repoReport"
  /\ idx < Len(allItems)
  /\ LET i == allItems[idx + 1]
         acc == RepoBody(i)
         appends == RepoAppends(i, acc.updated)
     IN /\ contributions' = acc.contributions
        /\ contributors' = acc.contributors
        /\ users' = acc.users
        /\ openedPRsCount' = acc.openedPRsCount
        /\ openedIssuesCount' = acc.openedIssuesCount
        /\ IF acc.panic
           THEN /\ pc' = "panic"
                /\ UNCHANGED <<idx, mergedPRs, closedIssues, updatedItems>>
           ELSE /\ pc' = pc
                /\ idx' = idx + 1
                /\ mergedPRs' = AppendAll(mergedPRs, "mergedPRs", appends, idx + 1)
                /\ closedIssues' =
                     AppendAll(closedIssues, "closedIssues", appends, idx + 1)
                /\ updatedItems' =
                     AppendAll(updatedItems, "updatedItems", appends, idx + 1)
  /\ UNCHANGED <<allPRs, allIssues, user, userVars, auxVars>>

\* A print that takes the items out of the collections it was given.
RepoPrintDrains ==
  /\ pc = "repoReport"
  /\ idx = Len(allItems)
  /\ pc' = "done"
  /\ mergedPRs' \in SortSlice(allItems, mergedPRs)
  /\ closedIssues' \in SortSlice(allItems, closedIssues)
  /\ updatedItems' \in SortSlice(allItems, updatedItems)
  /\ allPRs' = << >> /\ allIssues' = << >>
  /\ UNCHANGED <<user, idx, openedPRsCount, openedIssuesCount,
                 contributions, contributors, users, userVars, auxVars>>

\* The loop is over: the report is printed.  Printing a bucket sorts it in
\* place (Items.String); the counters and the Users maps are only read.
RepoPrint ==
  /\ pc = "repoReport"
  /\ idx = Len(allItems)
  /\ pc' = "done"
  /\ mergedPRs' \in SortSlice(allItems, mergedPRs)
  /\ closedIssues' \in SortSlice(allItems, closedIssues)
  /\ updatedItems' \in SortSlice(allItems, updatedItems)
  /\ UNCHANGED <<allPRs, allIssues, user, idx, openedPRsCount, openedIssuesCount,
                 contributions, contributors, users, userVars, auxVars>>

NextRepo == RepoItem \/ RepoPrint

SpecRepo == InitRepo /\ [][NextRepo]_vars


\* ---- userReport ---------------------------------------------------------
TargetLogins == {"alice"}

\* main: *user != "" calls userReport.
InitUser == InitData /\ user \in TargetLogins /\ pc = "userPRs"

\* A comment loop without the break: one append per matching comment.
RECURSIVE UserCommentsNoBreak(_, _, _)
UserCommentsNoBreak(comments, k, name) ==
  IF k > Len(comments) THEN [appends |-> << >>, panic |-> FALSE]
  ELSE IF Match(period, comments[k].CreatedAt)
       THEN IF comments[k].User = Nil THEN [appends |-> << >>, panic |-> TRUE]
            ELSE IF comments[k].User = user
                 THEN LET rest == UserCommentsNoBreak(comments, k + 1, name)
                      IN [appends |-> <<name>> \o rest.appends, panic |-> rest.panic]
                 ELSE UserCommentsNoBreak(comments, k + 1, name)
       ELSE UserCommentsNoBreak(comments, k + 1, name)

\* for _, comment := range item.Comments { ... break }, from comment k on:
\* the appends to the bucket called name the loop makes, and whether it
\* dereferences a nil comment.User.
RECURSIVE UserComments(_, _, _)
UserComments(comments, k, name) ==
  IF k > Len(comments) THEN [appends |-> << >>, panic |-> FALSE]
  ELSE IF Match(period, comments[k].CreatedAt)
       THEN IF comments[k].User = Nil THEN [appends |-> << >>, panic |-> TRUE]
            ELSE IF comments[k].User = user
                 THEN [appends |-> <<name>>, panic |-> FALSE]
                 ELSE UserComments(comments, k + 1, name)
       ELSE UserComments(comments, k + 1, name)

\* A PR loop body that takes a merge by the user for a review whenever it
\* happened.
UserPRAppendsAnyMerge(pr) ==
  IF Match(period, pr.CreatedAt) /\ pr.CreatedBy = Nil
  THEN [appends |-> << >>, panic |-> TRUE]
  ELSE IF Match(period, pr.CreatedAt) /\ pr.CreatedBy = user
  THEN [appends |-> <<"userPRs">>, panic |-> FALSE]
  ELSE IF pr.MergedBy # Nil /\ pr.MergedBy = user
  THEN [appends |-> <<"reviewedPRs">>, panic |-> FALSE]
  ELSE UserComments(pr.Comments, 1, "reviewedPRs")

\* The body of the loop over allPRs: the appends of pr it makes.
UserPRAppends(pr) ==
  IF Match(period, pr.CreatedAt) /\ pr.CreatedBy = Nil
  THEN [appends |-> << >>, panic |-> TRUE]
  ELSE IF Match(period, pr.CreatedAt) /\ pr.CreatedBy = user
  THEN [appends |-> <<"userPRs">>, panic |-> FALSE]
  ELSE IF Match(period, pr.ClosedAt) /\ pr.MergedBy # Nil /\ pr.MergedBy = user
  THEN [appends |-> <<"reviewedPRs">>, panic |-> FALSE]
  ELSE UserComments(pr.Comments, 1, "reviewedPRs")

\* An issue loop body that also lists an issue closed in the period among the
\* commented issues.
UserIssueAppendsClosed(i) ==
  IF Match(period, i.CreatedAt) /\ i.CreatedBy = Nil
  THEN [appends |-> << >>, panic |-> TRUE]
  ELSE IF Match(period, i.CreatedAt) /\ i.CreatedBy = user
  THEN [appends |-> <<"userIssues">>, panic |-> FALSE]
  ELSE IF Match(period, i.ClosedAt)
  THEN [appends |-> <<"commentIssues">>, panic |-> FALSE]
  ELSE UserComments(i.Comments, 1, "commentIssues")

\* The body of the loop over allIssues: the appends of i it makes.
UserIssueAppends(i) ==
  IF Match(period, i.CreatedAt) /\ i.CreatedBy = Nil
  THEN [appends |-> << >>, panic |-> TRUE]
  ELSE IF Match(period, i.CreatedAt) /\ i.CreatedBy = user
  THEN [appends |-> <<"userIssues">>, panic |-> FALSE]
  ELSE UserComments(i.Comments, 1, "commentIssues")

\* One iteration of for _, pr := range allPRs.
UserPR ==
  /\ pc = "userPRs"
  /\ idx < Len(allPRs)
  /\ LET r == UserPRAppends(allPRs[idx + 1])
     IN IF r.panic
        THEN /\ pc' = "panic"
             /\ UNCHANGED <<idx, userPRs, reviewedPRs>>
        ELSE /\ pc' = pc
             /\ idx' = idx + 1
             /\ userPRs' = AppendAll(userPRs, "userPRs", r.appends, idx + 1)
             /\ reviewedPRs' =
                  AppendAll(reviewedPRs, "reviewedPRs", r.appends, idx + 1)
  /\ UNCHANGED <<allPRs, allIssues, user, userIssues, commentIssues, repoVars, auxVars>>

\* The loop over allPRs is over: the loop over allIssues starts.
UserPRsDone ==
  /\ pc = "userPRs"
  /\ idx = Len(allPRs)
  /\ pc' = "userIssues"
  /\ idx' = 0
  /\ UNCHANGED <<allPRs, allIssues, user, userVars, repoVars, auxVars>>

\* One iteration of for _, i := range allIssues.
UserIssue ==
  /\ pc = "userIssues"
  /\ idx < Len(allIssues)
  /\ LET r == UserIssueAppends(allIssues[idx + 1])
     IN IF r.panic
        THEN /\ pc' = "panic"
             /\ UNCHANGED <<idx, userIssues, commentIssues>>
        ELSE /\ pc' = pc
             /\ idx' = idx + 1
             /\ userIssues' = AppendAll(userIssues, "userIssues", r.appends, idx + 1)
             /\ commentIssues' =
                  AppendAll(commentIssues, "commentIssues", r.appends, idx + 1)
  /\ UNCHANGED <<allPRs, allIssues, user, userPRs, reviewedPRs, repoVars, auxVars>>

\* Both loops are over: the report is printed, which sorts each bucket.
UserPrint ==
  /\ pc = "userIssues"
  /\ idx = Len(allIssues)
  /\ pc' = "done"
  /\ userPRs' \in SortSlice(allPRs, userPRs)
  /\ reviewedPRs' \in SortSlice(allPRs, reviewedPRs)
  /\ userIssues' \in SortSlice(allIssues, userIssues)
  /\ commentIssues' \in SortSlice(allIssues, commentIssues)
  /\ UNCHANGED <<allPRs, allIssues, user, idx, repoVars, auxVars>>

NextUser == UserPR \/ UserPRsDone \/ UserIssue \/ UserPrint

SpecUser == InitUser /\ [][NextUser]_vars

\* ---- main: the report the flags select ------------------------------------
Init == InitRepo \/ InitUser

Next == NextRepo \/ NextUser

Spec == Init /\ [][Next]_vars

\* ---- repoReport called a second time on the same collections --------------
\* Locals that outlive the call, as package-level variables would.
RepoEntryKept(cur) == cur

\* The locals of repoReport at its entry, whatever the values cur they had
\* when the previous call returned.
RepoEntry(cur) ==
  [mergedPRs |-> << >>, closedIssues |-> << >>,
   updatedItems |-> << >>, openedPRsCount |-> 0, openedIssuesCount |-> 0,
   contributions |-> 0, contributors |-> {}, users |-> {}]

\* The first call has returned: its output is kept aside and repoReport is
\* entered again with the same arguments.
RepoAgain ==
  /\ pc = "done"
  /\ user = ""
  /\ runNo = 1
  /\ LET cur == [mergedPRs |-> mergedPRs,
                 closedIssues |-> closedIssues, updatedItems |-> updatedItems,
                 openedPRsCount |-> openedPRsCount,
                 openedIssuesCount |-> openedIssuesCount,
                 contributions |-> contributions,
                 contributors |-> contributors, users |-> users]
         new == RepoEntry(cur)
     IN /\ first' = cur
        /\ idx' = 0
        /\ mergedPRs' = new.mergedPRs
        /\ closedIssues' = new.closedIssues
        /\ updatedItems' = new.updatedItems
        /\ openedPRsCount' = new.openedPRsCount
        /\ openedIssuesCount' = new.openedIssuesCount
        /\ contributions' = new.contributions
        /\ contributors' = new.contributors
        /\ users' = new.users
  /\ runNo' = 2
  /\ pc' = "repoReport"
  /\ UNCHANGED <<allPRs, allIssues, user, userVars, registryVars, callVars, runVars,
                 listVars>>

NextTwice == RepoItem \/ RepoPrint \/ RepoAgain

SpecTwice == InitRepo /\ [][NextTwice]_vars

\* ---- Users.Add: the registry of users ------------------------------------
MaxAdds == 4
URLs == {"url1", "url2"}

\* The *github.User values handed to Users.Add: a login and a profile URL.
RawUser == [Login : Logins, HTMLURL : URLs]

\* NewUser: the User struct built from a *github.User.
NewUser(u) == [ID |-> u.Login, URL |-> u.HTMLURL]

\* An Add without the lookup: every call allocates a User and stores it.
UsersAddAlwaysNew(reg, heap, u) ==
  LET usr == NewUser(u)
      ptr == Len(heap) + 1
  IN [users |-> [l \in DOMAIN reg \cup {usr.ID} |->
                   IF l = usr.ID THEN ptr ELSE reg[l]],
      heap |-> Append(heap, usr), ret |-> ptr]

\* An Add that brings the URL of a User it already holds up to date.
UsersAddRefresh(reg, heap, u) ==
  IF u.Login \in DOMAIN reg
  THEN [users |-> reg,
        heap |-> [heap EXCEPT ![reg[u.Login]].URL = u.HTMLURL],
        ret |-> reg[u.Login]]
  ELSE LET usr == NewUser(u)
           ptr == Len(heap) + 1
       IN [users |-> [l \in DOMAIN reg \cup {usr.ID} |->
                        IF l = usr.ID THEN ptr ELSE reg[l]],
           heap |-> Append(heap, usr), ret |-> ptr]

\* users.Add(u) on the map reg with the allocated structs heap: the map and
\* the structs after the call, and the *User it returns.
UsersAdd(reg, heap, u) ==
  IF u.Login \in DOMAIN reg
  THEN [users |-> reg, heap |-> heap, ret |-> reg[u.Login]]
  ELSE LET usr == NewUser(u)
           ptr == Len(heap) + 1
       IN [users |-> [l \in DOMAIN reg \cup {usr.ID} |->
                        IF l = usr.ID THEN ptr ELSE reg[l]],
           heap |-> Append(heap, usr), ret |-> ptr]

InitUsers ==
  /\ ReportIdle
  /\ AuxIdle
  /\ pc = "Users"

\* One call allUsers.Add(u).
Add ==
  /\ pc = "Users"
  /\ Len(addLog) < MaxAdds
  /\ \E u \in RawUser :
       LET r == UsersAdd(allUsers, userHeap, u)
       IN /\ allUsers' = r.users
          /\ userHeap' = r.heap
          /\ addLog' = Append(addLog, [u |-> u, ret |-> r.ret])
  /\ UNCHANGED <<reportVars, pc, callVars, twiceVars, runVars, listVars>>

NextUsers == Add

SpecUsers == InitUsers /\ [][NextUsers]_vars

\* ---- Period.Match on arbitrary periods and instants ------------------------
MaxInstant == 4
Instants == 0..MaxInstant

InitMatch ==
  /\ NonCallIdle
  /\ arg \in [Start : Instants, End : Instants, t : Instants]
  /\ ret = None /\ scan = None
  /\ pc = "Match"

\* The call p.Match(t).
MatchCall ==
  /\ pc = "Match"
  /\ ret' = [val |-> Match([Start |-> arg.Start, End |-> arg.End], arg.t)]
  /\ pc' = "MatchReturned"
  /\ UNCHANGED <<nonCallVars, arg, scan>>

NextMatch == MatchCall

SpecMatch == InitMatch /\ [][NextMatch]_vars

\* ---- the calendar of package time (proleptic Gregorian, UTC) --------------
\* A day is its number of days since 0001-01-01, which is a Monday; an
\* instant is a day and the seconds since its midnight.
IsLeap(y) == (y % 4 = 0 /\ y % 100 # 0) \/ y % 400 = 0

DaysBeforeYear(y) ==
  365 * (y - 1) + ((y - 1) \div 4) - ((y - 1) \div 100) + ((y - 1) \div 400)

MonthLen(y, m) ==
  IF m = 2 THEN (IF IsLeap(y) THEN 29 ELSE 28)
  ELSE IF m \in {4, 6, 9, 11} THEN 30 ELSE 31

RECURSIVE DaysBeforeMonth(_, _)
DaysBeforeMonth(y, m) ==
  IF m <= 1 THEN 0 ELSE DaysBeforeMonth(y, m - 1) + MonthLen(y, m - 1)

\* time.Date(y, m, d, 0, 0, 0, 0, time.UTC) as a day: a month outside 1..12
\* carries into the year, a day outside the month into the neighbouring months.
DateDay(y, m, d) ==
  LET ny == y + ((m - 1) \div 12)
      nm == ((m - 1) % 12) + 1
  IN DaysBeforeYear(ny) + DaysBeforeMonth(ny, nm) + d - 1

\* Time.Year of a day.
YearOf(d) ==
  CHOOSE y \in ((d \div 366) - 1)..((d \div 365) + 1) :
    DaysBeforeYear(y) <= d /\ d < DaysBeforeYear(y + 1)

\* Time.Weekday of a day, as days after Monday (time.Monday is 0 here).
Weekday(d) == d % 7
Monday == 0

\* Time.ISOWeek of a day: the year and week of the Thursday of its week.
ISOWeek(d) ==
  LET th == d - Weekday(d) + 3
      y == YearOf(th)
  IN [year |-> y, week |-> ((th - DaysBeforeYear(y)) \div 7) + 1]

\* ---- NewPeriodFromMonth, NewPeriodFromWeek (period.go) ---------------------
\* A string is the sequence of its characters.
MaxLen == 4
Chars == {"1", "2", "-", "x"}
DigitChars == <<"0", "1", "2", "3", "4", "5", "6", "7", "8", "9">>
FirstYear == 2018
LastYear == 2021
MaxWeek == 54
MaxSteps == 2000       \* day steps of one scan that the model follows

\* The value of a decimal digit.
DigitVal(c) == (CHOOSE k \in 1..10 : DigitChars[k] = c) - 1

IsDigits(str) ==
  /\ str # << >>
  /\ \A k \in 1..Len(str) : \E j \in 1..10 : DigitChars[j] = str[k]

RECURSIVE DigitsVal(_)
DigitsVal(str) ==
  IF str = << >> THEN 0
  ELSE 10 * DigitsVal(SubSeq(str, 1, Len(str) - 1)) + DigitVal(str[Len(str)])

\* strconv.Atoi: decimal digits after an optional minus sign.
AtoiOK(str) ==
  IF str # << >> /\ Head(str) = "-" THEN IsDigits(Tail(str)) ELSE IsDigits(str)

Atoi(str) == IF Head(str) = "-" THEN 0 - DigitsVal(Tail(str)) ELSE DigitsVal(str)

\* strconv.Itoa of a natural number.
RECURSIVE Itoa(_)
Itoa(n) ==
  IF n < 10 THEN <<DigitChars[n + 1]>>
  ELSE Append(Itoa(n \div 10), DigitChars[(n % 10) + 1])

\* strings.SplitN(str, sep, 2): one field when str has no sep, else the
\* text before the first sep and the text after it.
SplitN(str, sep) ==
  IF \A k \in 1..Len(str) : str[k] # sep THEN <<str>>
  ELSE LET k == CHOOSE j \in 1..Len(str) :
                  str[j] = sep /\ \A h \in 1..(j - 1) : str[h] # sep
       IN <<SubSeq(str, 1, k - 1), SubSeq(str, k + 1, Len(str))>>

\* The parsing both constructors start with: the two integers, the error of
\* Atoi, or the panic of the index expression o[1] on a one-field string.
ParseFields(str) ==
  LET o == SplitN(str, "-")
  IN IF ~AtoiOK(o[1]) THEN [kind |-> "error"]
     ELSE IF Len(o) < 2 THEN [kind |-> "panic"]
     ELSE IF ~AtoiOK(o[2]) THEN [kind |-> "error"]
     ELSE [kind |-> "ok", year |-> Atoi(o[1]), n |-> Atoi(o[2])]

\* A daysIn that asks for day 0 of the month itself, which is the last day
\* of the month before.
daysInPrevious(year, m) ==
  DateDay(year, m, 0) - DateDay(year, m - 1, 1) + 1

\* daysIn(year, m): time.Date(year, m+1, 0, ...).Day().
daysIn(year, m) ==
  DateDay(year, m + 1, 0) - DateDay(year, m, 1) + 1

\* NewPeriodFromMonth after the parsing.
MonthPeriod(year, month) ==
  [Start |-> [day |-> DateDay(year, month, 1), sec |-> 0],
   End |-> [day |-> DateDay(year, month, daysIn(year, month)),
            sec |-> 23 * 3600 + 59 * 60 + 59]]

\* The strings of at most MaxLen characters.
ShortStrings == UNION {[1..n -> Chars] : n \in 0..MaxLen}

\* Years divisible by 100: 1900 is not a leap year, 2000 is.
CenturyYears == {1900, 2000}

\* The inputs of the two constructors; a month is written with or without
\* a leading zero.
MonthInputs ==
  ShortStrings
    \cup {Itoa(y) \o <<"-">> \o Itoa(m) :
            y \in (FirstYear..LastYear) \cup CenturyYears, m \in 1..12}
    \cup {Itoa(y) \o <<"-", "0">> \o Itoa(m) : y \in FirstYear..LastYear, m \in 1..9}
WeekInputs ==
  ShortStrings \cup
    {Itoa(y) \o <<"-">> \o Itoa(w) : y \in FirstYear..LastYear, w \in 1..MaxWeek}

InitPeriod ==
  /\ NonCallIdle
  /\ \/ arg \in [fn : {"NewPeriodFromMonth"}, in : MonthInputs]
     \/ arg \in [fn : {"NewPeriodFromWeek"}, in : WeekInputs]
  /\ ret = None /\ scan = None
  /\ pc = "NewPeriod"

\* The call NewPeriodFromMonth(in).
NewPeriodFromMonth ==
  /\ pc = "NewPeriod"
  /\ arg.fn = "NewPeriodFromMonth"
  /\ LET f == ParseFields(arg.in)
     IN IF f.kind = "panic" THEN pc' = "panic" /\ ret' = ret
        ELSE /\ pc' = "PeriodReturned"
             /\ ret' = IF f.kind = "error" THEN [kind |-> "error"]
                       ELSE [kind |-> "ok", p |-> MonthPeriod(f.year, f.n)]
  /\ UNCHANGED <<nonCallVars, arg, scan>>

\* NewPeriodFromWeek(in) up to the first loop of firstDayOfISOWeek.
NewPeriodFromWeek ==
  /\ pc = "NewPeriod"
  /\ arg.fn = "NewPeriodFromWeek"
  /\ LET f == ParseFields(arg.in)
     IN IF f.kind = "panic" THEN pc' = "panic" /\ UNCHANGED <<ret, scan>>
        ELSE IF f.kind = "error"
        THEN /\ pc' = "PeriodReturned"
             /\ ret' = [kind |-> "error"]
             /\ scan' = scan
        ELSE /\ pc' = "back"
             /\ scan' = [year |-> f.year, week |-> f.n,
                         date |-> DateDay(f.year, 0, 0), steps |-> 0]
             /\ ret' = ret
  /\ UNCHANGED <<nonCallVars, arg>>

\* for date.Weekday() != time.Monday: one step back.
ScanBack ==
  /\ pc = "back"
  /\ Weekday(scan.date) # Monday
  /\ scan' = [scan EXCEPT !.date = @ - 1, !.steps = @ + 1]
  /\ UNCHANGED <<nonCallVars, pc, arg, ret>>

ScanBackDone ==
  /\ pc = "back"
  /\ Weekday(scan.date) = Monday
  /\ pc' = "fwdYear"
  /\ UNCHANGED <<nonCallVars, callVars>>

\* for isoYear < year: one step forward.
ScanYear ==
  /\ pc = "fwdYear"
  /\ ISOWeek(scan.date).year < scan.year
  /\ scan' = [scan EXCEPT !.date = @ + 1, !.steps = @ + 1]
  /\ UNCHANGED <<nonCallVars, pc, arg, ret>>

ScanYearDone ==
  /\ pc = "fwdYear"
  /\ ~(ISOWeek(scan.date).year < scan.year)
  /\ pc' = "fwdWeek"
  /\ UNCHANGED <<nonCallVars, callVars>>

\* A last loop that also leaves the first day of the given week behind.
ScanWeekTestOvershoot(date, week) == ISOWeek(date).week <= week

\* The test of the last loop: isoWeek < week.
ScanWeekTest(date, week) == ISOWeek(date).week < week

\* for isoWeek < week: one step forward.
ScanWeek ==
  /\ pc = "fwdWeek"
  /\ ScanWeekTest(scan.date, scan.week)
  /\ scan.steps < MaxSteps
  /\ scan' = [scan EXCEPT !.date = @ + 1, !.steps = @ + 1]
  /\ UNCHANGED <<nonCallVars, pc, arg, ret>>

\* firstDayOfISOWeek returns date; NewPeriodFromWeek sets Start to it and End
\* to Start.AddDate(0, 0, 7), and returns.
WeekReturn ==
  /\ pc = "fwdWeek"
  /\ ~ScanWeekTest(scan.date, scan.week)
  /\ pc' = "PeriodReturned"
  /\ ret' = [kind |-> "ok",
             p |-> [Start |-> [day |-> scan.date, sec |-> 0],
                    End |-> [day |-> scan.date + 7, sec |-> 0]]]
  /\ UNCHANGED <<nonCallVars, arg, scan>>

NextPeriod ==
  \/ NewPeriodFromMonth \/ NewPeriodFromWeek
  \/ ScanBack \/ ScanBackDone \/ ScanYear \/ ScanYearDone \/ ScanWeek
  \/ WeekReturn

SpecPeriod == InitPeriod /\ [][NextPeriod]_vars

\* ---- main: the fetch loop over the repositories, then the report ----------
MaxArgs == 2          \* positional arguments of the run
MaxPages == 2         \* pages of one list
MaxRunComments == 1   \* comments and reviews of one fetched record

\* The positional arguments: a repository, and a string without "/".
ArgSet == {<<"o", "/", "r">>, <<"o", "r">>}

\* The Go string of a sequence of characters.
RECURSIVE Join(_)
Join(str) == IF str = << >> THEN "" ELSE Head(str) \o Join(Tail(str))

\* A nil *time.Time and a nil *github.User of a raw record.
NoTime == -1
NilRaw == [Login |-> Nil, HTMLURL |-> Nil]

\* A timestamp inside the reporting window.
Recent == CHOOSE t \in Times : Match(period, t)

\* The users of the raw records of a response whose profile URLs are url.
RawRef(url) == {NilRaw} \cup [Login : Logins, HTMLURL : {url}]

\* The raw comments and reviews: written in the window by one user.
RawComment(url) ==
  [CreatedAt : {Recent}, User : {[Login |-> "alice", HTMLURL |-> url]}]

\* The raw pull requests of the list responses.
RunRawPR ==
  {r \in [Number : {1}, User : RawRef("url1"),
          MergedBy : {NilRaw, [Login |-> "bob", HTMLURL |-> "url1"]},
          CreatedAt : Times, UpdatedAt : {NoTime, Recent},
          ClosedAt : {NoTime, Recent}, Merged : {"nil"},
          MergedAt : {NoTime, Recent},
          Comments : SeqsUpTo(RawComment("url1"), MaxRunComments),
          Reviews : SeqsUpTo(RawComment("url1"), MaxRunComments)] :
     /\ Len(r.Comments) + Len(r.Reviews) <= MaxRunComments
     /\ r.MergedAt = (IF r.MergedBy = NilRaw THEN NoTime ELSE r.ClosedAt)}

\* The raw issues of the list responses; IsPR marks a pull request that the
\* issue list shows.
RunRawIssue ==
  {r \in [Number : {2}, User : RawRef("url2"), CreatedAt : Times,
          UpdatedAt : {NoTime}, ClosedAt : {NoTime, Recent},
          Comments : SeqsUpTo(RawComment("url2"), MaxRunComments),
          IsPR : BOOLEAN] :
     r.IsPR => /\ r.User = NilRaw /\ r.Comments = << >>
               /\ r.CreatedAt = 0 /\ r.ClosedAt = NoTime}

\* A time.Time field set from a *time.Time only when that is not nil.
TimeOf(t) == IF t = NoTime THEN 0 ELSE t

\* if x.User != nil { ... = users.Add(x.User) } on the registry acc: the
\* registry after it, and in ret the *User or Nil.
AddRef(acc, u) ==
  IF u = NilRaw THEN [acc EXCEPT !.ret = Nil]
  ELSE LET r == UsersAdd(acc.users, acc.heap, u)
       IN [users |-> r.users, heap |-> r.heap, ret |-> r.heap[r.ret].ID]

\* NewCommentFromPR, NewCommentFromReview, NewCommentFromIssue over the raw
\* comments from the k-th on, appended to comments.
RECURSIVE NewComments(_, _, _, _)
NewComments(acc, raws, k, comments) ==
  IF k > Len(raws) THEN [acc |-> acc, comments |-> comments]
  ELSE LET a == AddRef(acc, raws[k].User)
       IN NewComments(a, raws, k + 1,
            Append(comments, [CreatedAt |-> raws[k].CreatedAt, User |-> a.ret]))

\* A Merged that is the raw flag alone.
PRMergedFlagOnly(pr) == pr.Merged = "true"

\* i.Merged of NewItemFromPR: the raw flag when it is set, and true
\* whenever the raw record has a MergedAt.
PRMerged(pr) ==
  LET flag == IF pr.Merged # "nil" THEN pr.Merged = "true" ELSE FALSE
  IN IF pr.MergedAt # NoTime THEN TRUE ELSE flag

\* NewItemFromPR: the Item, its UpdatedAt, and the registry after the Adds
\* for the creator, the merger and the authors of comments and reviews.
NewItemFromPR(acc, pr, repo) ==
  LET a1 == AddRef(acc, pr.User)
      a2 == AddRef(a1, pr.MergedBy)
      cs == NewComments(a2, pr.Comments \o pr.Reviews, 1, << >>)
  IN [acc |-> cs.acc,
      UpdatedAt |-> TimeOf(pr.UpdatedAt),
      item |-> [PR |-> TRUE, Repo |-> repo, Number |-> pr.Number,
                CreatedBy |-> a1.ret, CreatedAt |-> pr.CreatedAt,
                ClosedAt |-> TimeOf(pr.ClosedAt), Comments |-> cs.comments,
                Merged |-> PRMerged(pr),
                MergedBy |-> a2.ret]]

\* NewItemFromIssue.
NewItemFromIssue(acc, issue, repo) ==
  LET a1 == AddRef(acc, issue.User)
      cs == NewComments(a1, issue.Comments, 1, << >>)
  IN [acc |-> cs.acc,
      item |-> [PR |-> FALSE, Repo |-> repo, Number |-> issue.Number,
                CreatedBy |-> a1.ret, CreatedAt |-> issue.CreatedAt,
                ClosedAt |-> TimeOf(issue.ClosedAt), Comments |-> cs.comments,
                Merged |-> FALSE, MergedBy |-> Nil]]

\* A loop that goes on to the next pull request where the op returns.
RECURSIVE HandlePRsSkip(_, _, _, _)
HandlePRsSkip(st, prs, k, repo) ==
  IF k > Len(prs) THEN st
  ELSE LET r == NewItemFromPR(st.acc, prs[k], repo)
       IN IF /\ Before(r.item.CreatedAt, period.Start)
             /\ Before(r.UpdatedAt, period.Start)
             /\ Before(r.item.ClosedAt, period.Start)
          THEN HandlePRsSkip([st EXCEPT !.acc = r.acc], prs, k + 1, repo)
          ELSE HandlePRsSkip([acc |-> r.acc, items |-> Append(st.items, r.item),
                              n |-> st.n + 1, cut |-> FALSE], prs, k + 1, repo)

\* The loop of the op of GetPRs over the pull requests of one page, from
\* the k-th on.  st holds the registry, the collection, the number of
\* appends of this GetPRs call, and whether the op has returned nil, nil.
RECURSIVE HandlePRs(_, _, _, _)
HandlePRs(st, prs, k, repo) ==
  IF k > Len(prs) THEN st
  ELSE LET r == NewItemFromPR(st.acc, prs[k], repo)
       IN IF /\ Before(r.item.CreatedAt, period.Start)
             /\ Before(r.UpdatedAt, period.Start)
             /\ Before(r.item.ClosedAt, period.Start)
          THEN [st EXCEPT !.acc = r.acc, !.cut = TRUE]
          ELSE HandlePRs([acc |-> r.acc, items |-> Append(st.items, r.item),
                          n |-> st.n + 1, cut |-> FALSE], prs, k + 1, repo)

\* The loop of the op of GetIssues over the issues of one page.
RECURSIVE HandleIssues(_, _, _, _)
HandleIssues(st, issues, k, repo) ==
  IF k > Len(issues) THEN st
  ELSE IF issues[k].IsPR THEN HandleIssues(st, issues, k + 1, repo)
  ELSE LET r == NewItemFromIssue(st.acc, issues[k], repo)
       IN HandleIssues([acc |-> r.acc, items |-> Append(st.items, r.item),
                        n |-> st.n + 1, cut |-> FALSE], issues, k + 1, repo)

InitRun ==
  /\ allPRs = << >> /\ allIssues = << >>
  /\ user \in {""} \cup TargetLogins
  /\ ReportLocals
  /\ UsersIdle /\ CallIdle /\ TwiceIdle /\ ListIdle
  /\ repos \in SeqsUpTo(ArgSet, MaxArgs)
  /\ \A j, k \in 1..Len(repos) : repos[j] = repos[k] => j = k
  /\ repoIdx = 0 /\ fetch = None /\ fetchLog = << >>
  /\ pc = "main"

\* for _, ownerAndRepo := range repos: the split of the next argument.  The
\* index expression t[1] panics when the argument has no "/".
MainArg ==
  /\ pc = "main"
  /\ repoIdx < Len(repos)
  /\ LET t == SplitN(repos[repoIdx + 1], "/")
     IN IF Len(t) # 2
        THEN /\ pc' = "panic"
             /\ UNCHANGED <<repoIdx, fetch>>
        ELSE /\ pc' = "GetPRs"
             /\ repoIdx' = repoIdx + 1
             /\ fetch' = [owner |-> Join(t[1]), repo |-> Join(t[2]),
                          page |-> 1, n |-> 0]
  /\ UNCHANGED <<reportVars, registryVars, callVars, twiceVars, listVars, repos,
                 fetchLog>>

\* One turn of doListOp in GetPRs: op(page) lists a page of pull requests
\* or fails.  GetPRs returns on the error, on the nil response of the cutoff
\* and after the last page; main logs an error and goes on to GetIssues.
PRPage ==
  /\ pc = "GetPRs"
  /\ \E err \in BOOLEAN :
       IF err
       THEN /\ fetchLog' = Append(fetchLog, [arg |-> repoIdx, kind |-> "PRs",
                                            err |-> TRUE, n |-> fetch.n])
            /\ pc' = "GetIssues"
            /\ fetch' = [fetch EXCEPT !.page = 1, !.n = 0]
            /\ UNCHANGED <<allPRs, registryVars>>
       ELSE \E prs \in SeqsUpTo(RunRawPR, MaxPRs - Len(allPRs)),
               NextPage \in {0} \cup {q \in {fetch.page + 1} : q <= MaxPages} :
              LET st == HandlePRs([acc |-> [users |-> allUsers, heap |-> userHeap,
                                          ret |-> Nil],
                                   items |-> allPRs, n |-> fetch.n,
                                   cut |-> FALSE],
                                  prs, 1, fetch.owner \o "/" \o fetch.repo)
              IN /\ allPRs' = st.items
                 /\ allUsers' = st.acc.users
                 /\ userHeap' = st.acc.heap
                 /\ addLog' = addLog
                 /\ IF st.cut \/ NextPage = 0
                    THEN /\ fetchLog' =
                              Append(fetchLog, [arg |-> repoIdx, kind |-> "PRs",
                                                err |-> FALSE, n |-> st.n])
                         /\ pc' = "GetIssues"
                         /\ fetch' = [fetch EXCEPT !.page = 1, !.n = 0]
                    ELSE /\ fetch' = [fetch EXCEPT !.page = NextPage, !.n = st.n]
                         /\ UNCHANGED <<pc, fetchLog>>
  /\ UNCHANGED <<allIssues, user, idx, repoVars, userVars, callVars, twiceVars,
                 listVars, repos, repoIdx>>

\* One turn of doListOp in GetIssues; after GetIssues the loop of main takes
\* the next argument.
IssuePage ==
  /\ pc = "GetIssues"
  /\ \E err \in BOOLEAN :
       IF err
       THEN /\ fetchLog' = Append(fetchLog, [arg |-> repoIdx, kind |-> "Issues",
                                            err |-> TRUE, n |-> fetch.n])
            /\ pc' = "main"
            /\ fetch' = None
            /\ UNCHANGED <<allIssues, registryVars>>
       ELSE \E issues \in SeqsUpTo(RunRawIssue, MaxIssues - Len(allIssues)),
               NextPage \in {0} \cup {q \in {fetch.page + 1} : q <= MaxPages} :
              LET st == HandleIssues([acc |-> [users |-> allUsers,
                                             heap |-> userHeap, ret |-> Nil],
                                      items |-> allIssues, n |-> fetch.n,
                                      cut |-> FALSE],
                                     issues, 1, fetch.owner \o "/" \o fetch.repo)
              IN /\ allIssues' = st.items
                 /\ allUsers' = st.acc.users
                 /\ userHeap' = st.acc.heap
                 /\ addLog' = addLog
                 /\ IF NextPage = 0
                    THEN /\ fetchLog' =
                              Append(fetchLog, [arg |-> repoIdx, kind |-> "Issues",
                                                err |-> FALSE, n |-> st.n])
                         /\ pc' = "main"
                         /\ fetch' = None
                    ELSE /\ fetch' = [fetch EXCEPT !.page = NextPage, !.n = st.n]
                         /\ UNCHANGED <<pc, fetchLog>>
  /\ UNCHANGED <<allPRs, user, idx, repoVars, userVars, callVars, twiceVars,
                 listVars, repos, repoIdx>>

\* The loop over repos is over: main calls the report the flags select.
MainReport ==
  /\ pc = "main"
  /\ repoIdx = Len(repos)
  /\ pc' = IF user # "" THEN "userPRs" ELSE "repoReport"
  /\ UNCHANGED <<reportVars, auxVars>>

NextRun == MainArg \/ PRPage \/ IssuePage \/ MainReport \/ NextRepo \/ NextUser

SpecRun == InitRun /\ [][NextRun]_vars

\* ---- NewItemFromPR on an arbitrary raw pull request ----------------------
\* The raw pull requests: merged flag nil, true or false, with any MergedAt.
ItemRawPR ==
  [Number : {1}, User : RawRef("url1"), MergedBy : RawRef("url1"),
   CreatedAt : Times, UpdatedAt : {NoTime, Recent}, ClosedAt : {NoTime, Recent},
   Merged : {"nil", "true", "false"}, MergedAt : {NoTime} \cup Times,
   Comments : {<< >>}, Reviews : {<< >>}]

InitItem ==
  /\ NonCallIdle
  /\ arg \in [pr : ItemRawPR, repo : Repos]
  /\ ret = None /\ scan = None
  /\ pc = "NewItemFromPR"

\* The call NewItemFromPR(ctx, client, pr, repo, users).
ItemFromPR ==
  /\ pc = "NewItemFromPR"
  /\ LET r == NewItemFromPR([users |-> allUsers, heap |-> userHeap,
                            ret |-> Nil], arg.pr, arg.repo)
     IN /\ ret' = [item |-> r.item]
        /\ allUsers' = r.acc.users
        /\ userHeap' = r.acc.heap
  /\ pc' = "ItemReturned"
  /\ UNCHANGED <<reportVars, addLog, twiceVars, runVars, listVars, arg, scan>>

NextItem == ItemFromPR

SpecItem == InitItem /\ [][NextItem]_vars

\* ---- Items.String on an arbitrary bucket ----------------------------------
MaxBucket == 3        \* items of the bucket that is rendered
MaxNumber == 2        \* issue and pull request numbers of its items

\* The items of the bucket, as far as the order of the rendering goes.
SortItems == [Repo : SortRepos, Number : 1..MaxNumber]

\* arg is the bucket: the items in the order they were appended in, and the
\* slice of their positions that Items.String sorts.
InitString ==
  /\ NonCallIdle
  /\ \E all \in SeqsUpTo(SortItems, MaxBucket) :
       arg = [all |-> all, bucket |-> [k \in 1..Len(all) |-> k]]
  /\ ret = None /\ scan = None
  /\ pc = "String"

\* The call items.String(): sort.Slice sorts the slice in place, and the
\* loop writes one line per item of the sorted slice.
ItemsString ==
  /\ pc = "String"
  /\ \E sorted \in SortSlice(arg.all, arg.bucket) :
       /\ arg' = [arg EXCEPT !.bucket = sorted]
       /\ ret' = [lines |-> sorted]
  /\ pc' = "StringReturned"
  /\ UNCHANGED <<nonCallVars, scan>>

NextString == ItemsString

SpecString == InitString /\ [][NextString]_vars

\* ---- GetPRs with the cutoff, request by request ---------------------------
MaxPerPage == 2       \* pull requests of one page

\* The raw pull requests of a page: created before, at or after the cutoff
\* period.Start, updated at it or never, closed after it or never.  The
\* server numbers them as it lists them.
CutRawPR ==
  [Number : {0}, User : {[Login |-> "alice", HTMLURL |-> "url1"]},
   MergedBy : {NilRaw}, CreatedAt : {0, period.Start, Recent},
   UpdatedAt : {NoTime, period.Start}, ClosedAt : {NoTime, Recent},
   Merged : {"nil"}, MergedAt : {NoTime}, Comments : {<< >>}, Reviews : {<< >>}]

\* The pull requests the requests so far have listed, in the order listed.
RECURSIVE Fetched(_)
Fetched(log) ==
  IF log = << >> THEN << >>
  ELSE Fetched(SubSeq(log, 1, Len(log) - 1)) \o log[Len(log)].prs

InitGetPRs ==
  /\ ReportIdle /\ UsersIdle /\ CallIdle /\ TwiceIdle
  /\ repos = << >> /\ repoIdx = 0 /\ fetchLog = << >>
  /\ fetch = [owner |-> "o", repo |-> "r", page |-> 1, n |-> 0]
  /\ quota = 0 /\ listPage = 0 /\ listResp = None /\ subPage = 0
  /\ reqLog = << >> /\ listRet = << >>
  /\ pc = "GetPRsCall"

\* One turn of doListOp in GetPRs(ctx, client, owner, repo, &period.Start,
\* &allPRs, &allUsers): the request of fetch.page fails, or lists a page that
\* the op handles; GetPRs returns on the error, on the nil response of the
\* cutoff and when NextPage is 0.
GetPRsTurn ==
  /\ pc = "GetPRsCall"
  /\ \E err \in BOOLEAN :
       IF err
       THEN /\ reqLog' = Append(reqLog, [page |-> fetch.page, ok |-> FALSE,
                                         prs |-> << >>])
            /\ listRet' = Append(listRet, [kind |-> "PRs", err |-> TRUE])
            /\ pc' = "GetPRsReturned"
            /\ UNCHANGED <<allPRs, registryVars, fetch>>
       ELSE \E raw \in SeqsUpTo(CutRawPR, MaxPerPage),
               NextPage \in {0} \cup {q \in {fetch.page + 1} : q <= MaxPages} :
              LET base == Len(Fetched(reqLog))
                  prs == [k \in 1..Len(raw) |->
                            [raw[k] EXCEPT !.Number = base + k]]
                  st == HandlePRs([acc |-> [users |-> allUsers, heap |-> userHeap,
                                          ret |-> Nil],
                                   items |-> allPRs, n |-> fetch.n,
                                   cut |-> FALSE],
                                  prs, 1, fetch.owner \o "/" \o fetch.repo)
              IN /\ reqLog' = Append(reqLog, [page |-> fetch.page, ok |-> TRUE,
                                              prs |-> prs])
                 /\ allPRs' = st.items
                 /\ allUsers' = st.acc.users
                 /\ userHeap' = st.acc.heap
                 /\ addLog' = addLog
                 /\ IF st.cut \/ NextPage = 0
                    THEN /\ listRet' = Append(listRet, [kind |-> "PRs",
                                                        err |-> FALSE])
                         /\ pc' = "GetPRsReturned"
                         /\ fetch' = [fetch EXCEPT !.n = st.n]
                    ELSE /\ fetch' = [fetch EXCEPT !.page = NextPage, !.n = st.n]
                         /\ UNCHANGED <<pc, listRet>>
  /\ UNCHANGED <<allIssues, user, idx, repoVars, userVars, callVars, twiceVars,
                 repos, repoIdx, fetchLog, quota, listPage, listResp, subPage>>

NextGetPRs == GetPRsTurn

SpecGetPRs == InitGetPRs /\ [][NextGetPRs]_vars

\* ---- doListOp under the rate limit of the server (gh.go) ------------------
\* GetPRs lists the pull requests of a repository page by page; for every
\* pull request of a page its op calls NewItemFromPR, which lists the
\* comments and then the reviews with a doListOp of its own.  The server
\* accepts RateLimit requests per window and rejects a request made when none
\* is left; a response carries the number left after it.
RateLimit == 3

\* The NextPage of a response to the request of page p: 0 on the last page.
NextPages(p) == {0} \cup {q \in {p + 1} : q <= MaxPages}

\* doListOp after a response: the sleep until the reset when the response
\* reports nothing remaining, after which the server accepts requests again.
AfterSleep(q, resp) == IF resp.Remaining = 0 THEN RateLimit ELSE q

InitList ==
  /\ ReportIdle /\ UsersIdle /\ CallIdle /\ TwiceIdle /\ RunIdle
  /\ quota \in 1..RateLimit
  /\ listPage = 1 /\ listResp = None /\ subPage = 0
  /\ reqLog = << >> /\ listRet = << >>
  /\ pc = "List"

\* doListOp of GetPRs calls op(page): the request of a page of pull
\* requests.  A rejected request makes op and then doListOp return the
\* error; otherwise the op goes on with the pull request of the page, if any.
ListOp ==
  /\ pc = "List"
  /\ IF quota = 0
     THEN /\ reqLog' = Append(reqLog, [kind |-> "PRs", page |-> listPage,
                                       ok |-> FALSE])
          /\ listRet' = Append(listRet, [kind |-> "PRs", err |-> TRUE])
          /\ pc' = "ListReturned"
          /\ UNCHANGED <<quota, listResp, subPage>>
     ELSE \E NextPage \in NextPages(listPage), hasPR \in BOOLEAN :
            /\ reqLog' = Append(reqLog, [kind |-> "PRs", page |-> listPage,
                                         ok |-> TRUE])
            /\ quota' = quota - 1
            /\ listResp' = [NextPage |-> NextPage, Remaining |-> quota - 1]
            /\ pc' = IF hasPR THEN "Comments" ELSE "ListResp"
            /\ subPage' = IF hasPR THEN 1 ELSE subPage
            /\ UNCHANGED listRet
  /\ UNCHANGED <<reportVars, registryVars, callVars, twiceVars, runVars, listPage>>

\* One turn of a doListOp of NewItemFromPR: the request of a page of
\* comments or of reviews, and what doListOp does with the response.
SubOp(kind, next) ==
  /\ pc = kind
  /\ IF quota = 0
     THEN /\ reqLog' = Append(reqLog, [kind |-> kind, page |-> subPage,
                                       ok |-> FALSE])
          /\ listRet' = Append(listRet, [kind |-> kind, err |-> TRUE])
          /\ pc' = next
          /\ subPage' = 1
          /\ UNCHANGED quota
     ELSE \E NextPage \in NextPages(subPage) :
            /\ reqLog' = Append(reqLog, [kind |-> kind, page |-> subPage,
                                         ok |-> TRUE])
            /\ quota' = AfterSleep(quota - 1, [NextPage |-> NextPage,
                                               Remaining |-> quota - 1])
            /\ IF NextPage = 0
               THEN /\ listRet' = Append(listRet, [kind |-> kind, err |-> FALSE])
                    /\ pc' = next
                    /\ subPage' = 1
               ELSE /\ subPage' = NextPage
                    /\ UNCHANGED <<pc, listRet>>
  /\ UNCHANGED <<reportVars, registryVars, callVars, twiceVars, runVars,
                 listPage, listResp>>

CommentsOp == SubOp("Comments", "Reviews")
ReviewsOp == SubOp("Reviews", "ListResp")

\* The op of GetPRs returns its response: doListOp takes the next page
\* from it, sleeps when it reports nothing remaining, and returns nil after
\* the last page.
ListResponse ==
  /\ pc = "ListResp"
  /\ listPage' = listResp.NextPage
  /\ quota' = AfterSleep(quota, listResp)
  /\ listResp' = None
  /\ IF listResp.NextPage = 0
     THEN /\ listRet' = Append(listRet, [kind |-> "PRs", err |-> FALSE])
          /\ pc' = "ListReturned"
     ELSE /\ pc' = "List"
          /\ UNCHANGED listRet
  /\ UNCHANGED <<reportVars, registryVars, callVars, twiceVars, runVars,
                 subPage, reqLog>>

\* The reset time of the server passes.
QuotaReset ==
  /\ pc \in {"List", "Comments", "Reviews", "ListResp"}
  /\ quota < RateLimit
  /\ quota' = RateLimit
  /\ UNCHANGED <<reportVars, registryVars, callVars, twiceVars, runVars, pc,
                 listPage, listResp, subPage, reqLog, listRet>>

NextList == ListOp \/ CommentsOp \/ ReviewsOp \/ ListResponse \/ QuotaReset

SpecList == InitList /\ [][NextList]_vars

\* ---- repoReport, statement by statement ----------------------------------
\* The loop body of repoReport in the steps of its statements that write the
\* Users maps: arg holds the index c of the comment the inner loop is at and
\* the local updated.
InitSteps ==
  /\ allPRs \in SeqsUpTo(PRItem(MaxComments), MaxPRs)
  /\ allIssues \in SeqsUpTo(IssueItem(0), MaxIssues)
  /\ \A k \in 1..Len(allPRs) : allPRs[k].Number = k
  /\ \A k \in 1..Len(allIssues) : allIssues[k].Number = Len(allPRs) + k
  /\ user = ""
  /\ ReportLocals
  /\ AuxIdle
  /\ pc = "stepItem"

\* The accumulators with the local updated of the iteration under way.
StepAcc == [RepoAcc EXCEPT !.updated = arg.updated]

\* The next iteration begins: var updated bool, and
\* users[i.CreatedBy.ID] = i.CreatedBy.
StepRecordCreator ==
  /\ pc = "stepItem"
  /\ idx < Len(allItems)
  /\ LET acc == RepoRecordCreator(RepoAcc, allItems[idx + 1])
     IN IF acc.panic
        THEN pc' = "panic" /\ UNCHANGED <<users, arg>>
        ELSE /\ users' = acc.users
             /\ arg' = [c |-> 1, updated |-> FALSE]
             /\ pc' = "stepComment"
  /\ UNCHANGED <<allPRs, allIssues, user, idx, mergedPRs, closedIssues,
                 updatedItems, openedPRsCount, openedIssuesCount, contributions,
                 contributors, userVars, registryVars, ret, scan, twiceVars,
                 runVars, listVars>>

\* The next comment: if period.Match(comment.CreatedAt) { contributions++;
\* contributors[comment.User.ID] = comment.User; updated = true }.
StepComment ==
  /\ pc = "stepComment"
  /\ arg.c <= Len(allItems[idx + 1].Comments)
  /\ LET comment == allItems[idx + 1].Comments[arg.c]
     IN IF ~Match(period, comment.CreatedAt)
        THEN pc' = "stepCommentUser"
             /\ UNCHANGED <<contributions, contributors, arg>>
        ELSE /\ contributions' = contributions + 1
             /\ IF comment.User = Nil
                THEN pc' = "panic" /\ UNCHANGED <<contributors, arg>>
                ELSE /\ contributors' = contributors \cup {comment.User}
                     /\ arg' = [arg EXCEPT !.updated = TRUE]
                     /\ pc' = "stepCommentUser"
  /\ UNCHANGED <<allPRs, allIssues, user, idx, mergedPRs, closedIssues,
                 updatedItems, openedPRsCount, openedIssuesCount, users,
                 userVars, registryVars, ret, scan, twiceVars, runVars, listVars>>

\* A comment loop that never records the author of a comment.
StepCommentUserSkipped ==
  /\ pc = "stepCommentUser"
  /\ arg' = [arg EXCEPT !.c = @ + 1]
  /\ pc' = "stepComment"
  /\ UNCHANGED <<reportVars, registryVars, ret, scan, twiceVars, runVars,
                 listVars>>

\* users[comment.User.ID] = comment.User, which ends the iteration of the
\* comment loop.
StepCommentUser ==
  /\ pc = "stepCommentUser"
  /\ LET comment == allItems[idx + 1].Comments[arg.c]
     IN IF comment.User = Nil
        THEN pc' = "panic" /\ UNCHANGED <<users, arg>>
        ELSE /\ users' = users \cup {comment.User}
             /\ arg' = [arg EXCEPT !.c = @ + 1]
             /\ pc' = "stepComment"
  /\ UNCHANGED <<allPRs, allIssues, user, idx, mergedPRs, closedIssues,
                 updatedItems, openedPRsCount, openedIssuesCount, contributions,
                 contributors, userVars, registryVars, ret, scan, twiceVars,
                 runVars, listVars>>

\* The comment loop is over; if period.Match(i.CreatedAt) { ... }.
StepCreated ==
  /\ pc = "stepComment"
  /\ arg.c > Len(allItems[idx + 1].Comments)
  /\ LET acc == RepoCreated(StepAcc, allItems[idx + 1])
     IN /\ contributions' = acc.contributions
        /\ contributors' = acc.contributors
        /\ openedPRsCount' = acc.openedPRsCount
        /\ openedIssuesCount' = acc.openedIssuesCount
        /\ arg' = [arg EXCEPT !.updated = acc.updated]
  /\ pc' = "stepClosed"
  /\ UNCHANGED <<allPRs, allIssues, user, idx, mergedPRs, closedIssues,
                 updatedItems, users, userVars, registryVars, ret, scan,
                 twiceVars, runVars, listVars>>

\* if period.Match(i.ClosedAt) { ... } else { ... }: the appends to the
\* buckets, users[i.MergedBy.ID] and then contributors[i.MergedBy.ID] of a
\* merged PR; the iteration is over.
StepClosed ==
  /\ pc = "stepClosed"
  /\ LET i == allItems[idx + 1]
         acc == RepoMergedBy(StepAcc, i)
         appends == RepoAppends(i, arg.updated)
     IN /\ users' = acc.users
        /\ contributors' = acc.contributors
        /\ mergedPRs' = AppendAll(mergedPRs, "mergedPRs", appends, idx + 1)
        /\ closedIssues' =
             AppendAll(closedIssues, "closedIssues", appends, idx + 1)
        /\ updatedItems' =
             AppendAll(updatedItems, "updatedItems", appends, idx + 1)
  /\ idx' = idx + 1
  /\ arg' = None
  /\ pc' = "stepItem"
  /\ UNCHANGED <<allPRs, allIssues, user, openedPRsCount, openedIssuesCount,
                 contributions, userVars, registryVars, ret, scan, twiceVars,
                 runVars, listVars>>

\* The loop is over: the report is printed, which sorts each bucket.
StepPrint ==
  /\ pc = "stepItem"
  /\ idx = Len(allItems)
  /\ pc' = "done"
  /\ mergedPRs' \in SortSlice(allItems, mergedPRs)
  /\ closedIssues' \in SortSlice(allItems, closedIssues)
  /\ updatedItems' \in SortSlice(allItems, updatedItems)
  /\ UNCHANGED <<allPRs, allIssues, user, idx, openedPRsCount, openedIssuesCount,
                 contributions, contributors, users, userVars, auxVars>>

NextSteps ==
  \/ StepRecordCreator \/ StepComment \/ StepCommentUser \/ StepCreated
  \/ StepClosed \/ StepPrint

SpecSteps == InitSteps /\ [][NextSteps]_vars

\* ---- doListOp, call by call, under GetPRs and GetIssues ------------------
MaxCalls == 3         \* calls of op that the model follows

\* The errors of a list request.
Errors == {"e1", "e2"}

\* The raw records of a page: at most one per page, a pull request created
\* before, at or after the cutoff, or an issue or a pull request that the
\* issue list shows.
DoListRawPR == {r \in CutRawPR : r.UpdatedAt = NoTime /\ r.ClosedAt = NoTime}
DoListRawIssue ==
  {r \in RunRawIssue :
     r.User = NilRaw /\ r.Comments = << >> /\ r.ClosedAt = NoTime}

\* The NextPage of a response: the server may name any page, or 0.
AnyNextPage == 0..MaxPages

InitDoList ==
  /\ ReportIdle /\ UsersIdle /\ CallIdle /\ TwiceIdle
  /\ repos = << >> /\ repoIdx = 0 /\ fetchLog = << >>
  /\ fetch \in [owner : {"o"}, repo : {"r"}, kind : {"PRs", "Issues"}]
  /\ quota = 0 /\ listPage = 1 /\ listResp = None /\ subPage = 0
  /\ reqLog = << >> /\ listRet = << >>
  /\ pc = "doListOp"

\* r, err := op(page) with the op of GetPRs or of GetIssues: the request
\* fails (return nil, err), or lists a page whose records the op appends;
\* the op of GetPRs returns nil, nil at the cutoff.  What op returned is in
\* listResp; the log gets the page, what op returned with the NextPage of
\* the response, and the items this call appended.
DoListCall ==
  /\ pc = "doListOp"
  /\ Len(reqLog) < MaxCalls
  /\ \/ \E e \in Errors :
          /\ listResp' = [kind |-> "err", err |-> e, NextPage |-> 0,
                          Remaining |-> 0]
          /\ reqLog' = Append(reqLog, [page |-> listPage, kind |-> "err",
                                       next |-> 0, items |-> << >>])
          /\ UNCHANGED <<allPRs, allIssues, registryVars>>
     \/ \E NextPage \in AnyNextPage, Remaining \in {0, 1} :
          LET acc == [users |-> allUsers, heap |-> userHeap, ret |-> Nil]
              name == fetch.owner \o "/" \o fetch.repo
              start(items) == [acc |-> acc, items |-> items, n |-> 0,
                               cut |-> FALSE]
          IN IF fetch.kind = "PRs"
             THEN \E prs \in SeqsUpTo(DoListRawPR, 1) :
                    LET st == HandlePRs(start(allPRs), prs, 1, name)
                    IN /\ allPRs' = st.items
                       /\ allUsers' = st.acc.users /\ userHeap' = st.acc.heap
                       /\ UNCHANGED <<allIssues, addLog>>
                       /\ listResp' =
                            IF st.cut
                            THEN [kind |-> "nil", err |-> "nil", NextPage |-> 0,
                                  Remaining |-> 0]
                            ELSE [kind |-> "resp", err |-> "nil",
                                  NextPage |-> NextPage, Remaining |-> Remaining]
                       /\ reqLog' =
                            Append(reqLog,
                                   [page |-> listPage,
                                    kind |-> IF st.cut THEN "nil" ELSE "resp",
                                    next |-> IF st.cut THEN 0 ELSE NextPage,
                                    items |-> SubSeq(st.items, Len(allPRs) + 1,
                                                     Len(st.items))])
             ELSE \E issues \in SeqsUpTo(DoListRawIssue, 1) :
                    LET st == HandleIssues(start(allIssues), issues, 1, name)
                    IN /\ allIssues' = st.items
                       /\ allUsers' = st.acc.users /\ userHeap' = st.acc.heap
                       /\ UNCHANGED <<allPRs, addLog>>
                       /\ listResp' = [kind |-> "resp", err |-> "nil",
                                       NextPage |-> NextPage,
                                       Remaining |-> Remaining]
                       /\ reqLog' =
                            Append(reqLog,
                                   [page |-> listPage, kind |-> "resp",
                                    next |-> NextPage,
                                    items |-> SubSeq(st.items, Len(allIssues) + 1,
                                                     Len(st.items))])
  /\ pc' = "doListResp"
  /\ UNCHANGED <<user, idx, repoVars, userVars, callVars, twiceVars, runVars,
                 quota, listPage, subPage, listRet>>

\* A page that is the one after the page just listed.
NextPageCounted(page, r) == page + 1

\* page = r.NextPage.
NextPageOf(page, r) == r.NextPage

\* A doListOp that goes on to the next page after an error.
DoListNextIgnoresError ==
  /\ pc = "doListResp"
  /\ listResp' = None
  /\ IF listResp.kind = "nil"
     THEN /\ listRet' = Append(listRet, [kind |-> fetch.kind, err |-> "nil"])
          /\ pc' = "doListReturned"
          /\ UNCHANGED <<listPage, quota>>
     ELSE /\ listPage' = IF listResp.kind = "err" THEN listPage + 1
                         ELSE NextPageOf(listPage, listResp)
          /\ quota' = AfterSleep(quota, listResp)
          /\ IF listPage' = 0
             THEN /\ listRet' = Append(listRet,
                                       [kind |-> fetch.kind, err |-> "nil"])
                  /\ pc' = "doListReturned"
             ELSE /\ pc' = "doListOp"
                  /\ UNCHANGED listRet
  /\ UNCHANGED <<reportVars, registryVars, callVars, twiceVars, runVars,
                 subPage, reqLog>>

\* doListOp after op has returned: return err; break on a nil response;
\* else page = r.NextPage, the sleep when nothing remains, and the test of
\* the loop, after which doListOp returns nil or calls op again.
DoListNext ==
  /\ pc = "doListResp"
  /\ listResp' = None
  /\ IF listResp.kind = "err"
     THEN /\ listRet' = Append(listRet, [kind |-> fetch.kind,
                                         err |-> listResp.err])
          /\ pc' = "doListReturned"
          /\ UNCHANGED <<listPage, quota>>
     ELSE IF listResp.kind = "nil"
     THEN /\ listRet' = Append(listRet, [kind |-> fetch.kind, err |-> "nil"])
          /\ pc' = "doListReturned"
          /\ UNCHANGED <<listPage, quota>>
     ELSE /\ listPage' = NextPageOf(listPage, listResp)
          /\ quota' = AfterSleep(quota, listResp)
          /\ IF listPage' = 0
             THEN /\ listRet' = Append(listRet,
                                       [kind |-> fetch.kind, err |-> "nil"])
                  /\ pc' = "doListReturned"
             ELSE /\ pc' = "doListOp"
                  /\ UNCHANGED listRet
  /\ UNCHANGED <<reportVars, registryVars, callVars, twiceVars, runVars,
                 subPage, reqLog>>

NextDoList == DoListCall \/ DoListNext

SpecDoList == InitDoList /\ [][NextDoList]_vars

\* doListOp is sequential code: once op has returned it goes on, and its
\* sleep ends.
SpecDoListFair == SpecDoList /\ WF_vars(DoListNext)

\* ---- main of main.go: the most recent numItems items --------------------
MaxNumItems == 2      \* the value of the flag -i

\* The positional arguments: two repositories, and a string without "/".
RecentArgSet == ArgSet \cup {<<"o", "/", "r", "a">>}

\* The raw records of the list responses.
RecentRawPR ==
  {r \in CutRawPR :
     r.CreatedAt = Recent /\ r.UpdatedAt = NoTime /\ r.ClosedAt = NoTime}
RecentRawIssue == DoListRawIssue

\* The loop of the op over the pull requests of one page, from the k-th on:
\* the item is appended, and the op returns nil, nil when the collection
\* has numItems items or more.
RECURSIVE HandleRecentPRs(_, _, _, _, _)
HandleRecentPRs(st, prs, k, repo, numItems) ==
  IF k > Len(prs) THEN st
  ELSE LET r == NewItemFromPR(st.acc, prs[k], repo)
           items == Append(st.items, r.item)
       IN IF Len(items) >= numItems
          THEN [acc |-> r.acc, items |-> items, n |-> st.n + 1, cut |-> TRUE]
          ELSE HandleRecentPRs([acc |-> r.acc, items |-> items, n |-> st.n + 1,
                                cut |-> FALSE], prs, k + 1, repo, numItems)

\* The loop of the op over the issues of one page.
RECURSIVE HandleRecentIssues(_, _, _, _, _)
HandleRecentIssues(st, issues, k, repo, numItems) ==
  IF k > Len(issues) THEN st
  ELSE IF issues[k].IsPR
  THEN HandleRecentIssues(st, issues, k + 1, repo, numItems)
  ELSE LET r == NewItemFromIssue(st.acc, issues[k], repo)
           items == Append(st.items, r.item)
       IN IF Len(items) >= numItems
          THEN [acc |-> r.acc, items |-> items, n |-> st.n + 1, cut |-> TRUE]
          ELSE HandleRecentIssues([acc |-> r.acc, items |-> items,
                                   n |-> st.n + 1, cut |-> FALSE],
                                  issues, k + 1, repo, numItems)

\* arg holds the flag -i of the run.
InitRecent ==
  /\ ReportIdle /\ UsersIdle /\ TwiceIdle /\ ListIdle
  /\ arg \in [numItems : 0..MaxNumItems]
  /\ ret = None /\ scan = None
  /\ repos \in SeqsUpTo(RecentArgSet, MaxArgs)
  /\ repoIdx = 0 /\ fetch = None /\ fetchLog = << >>
  /\ pc = "recentMain"

\* for _, ownerAndRepo := range repos: the split of the next argument.  The
\* index expression t[1] panics when the argument has no "/".
RecentArg ==
  /\ pc = "recentMain"
  /\ repoIdx < Len(repos)
  /\ LET t == SplitN(repos[repoIdx + 1], "/")
     IN IF Len(t) # 2
        THEN /\ pc' = "panic"
             /\ UNCHANGED <<repoIdx, fetch>>
        ELSE /\ pc' = "recentPRs"
             /\ repoIdx' = repoIdx + 1
             /\ fetch' = [owner |-> Join(t[1]), repo |-> Join(t[2]),
                          page |-> 1, n |-> 0]
  /\ UNCHANGED <<reportVars, registryVars, callVars, twiceVars, listVars, repos,
                 fetchLog>>

\* One turn of the doListOp for the pull requests: op(page) fails, or lists
\* a page and appends its pull requests up to the limit.  After the
\* doListOp main logs an error and goes on to the issues.
RecentPRPage ==
  /\ pc = "recentPRs"
  /\ \E err \in BOOLEAN :
       IF err
       THEN /\ fetchLog' = Append(fetchLog, [arg |-> repoIdx, kind |-> "PRs",
                                            err |-> TRUE, n |-> fetch.n])
            /\ pc' = "recentIssues"
            /\ fetch' = [fetch EXCEPT !.page = 1, !.n = 0]
            /\ UNCHANGED <<allPRs, registryVars>>
       ELSE \E prs \in SeqsUpTo(RecentRawPR, MaxPerPage),
               NextPage \in {0} \cup {q \in {fetch.page + 1} : q <= MaxPages} :
              LET st == HandleRecentPRs(
                          [acc |-> [users |-> allUsers, heap |-> userHeap,
                                    ret |-> Nil],
                           items |-> allPRs, n |-> fetch.n, cut |-> FALSE],
                          prs, 1, Join(repos[repoIdx]), arg.numItems)
              IN /\ allPRs' = st.items
                 /\ allUsers' = st.acc.users
                 /\ userHeap' = st.acc.heap
                 /\ addLog' = addLog
                 /\ IF st.cut \/ NextPage = 0
                    THEN /\ fetchLog' =
                              Append(fetchLog, [arg |-> repoIdx, kind |-> "PRs",
                                                err |-> FALSE, n |-> st.n])
                         /\ pc' = "recentIssues"
                         /\ fetch' = [fetch EXCEPT !.page = 1, !.n = 0]
                    ELSE /\ fetch' = [fetch EXCEPT !.page = NextPage, !.n = st.n]
                         /\ UNCHANGED <<pc, fetchLog>>
  /\ UNCHANGED <<allIssues, user, idx, repoVars, userVars, callVars, twiceVars,
                 listVars, repos, repoIdx>>

\* One turn of the doListOp for the issues; after it the loop of main takes
\* the next argument.
RecentIssuePage ==
  /\ pc = "recentIssues"
  /\ \E err \in BOOLEAN :
       IF err
       THEN /\ fetchLog' = Append(fetchLog, [arg |-> repoIdx, kind |-> "Issues",
                                            err |-> TRUE, n |-> fetch.n])
            /\ pc' = "recentMain"
            /\ fetch' = None
            /\ UNCHANGED <<allIssues, registryVars>>
       ELSE \E issues \in SeqsUpTo(RecentRawIssue, MaxPerPage),
               NextPage \in {0} \cup {q \in {fetch.page + 1} : q <= MaxPages} :
              LET st == HandleRecentIssues(
                          [acc |-> [users |-> allUsers, heap |-> userHeap,
                                    ret |-> Nil],
                           items |-> allIssues, n |-> fetch.n, cut |-> FALSE],
                          issues, 1, Join(repos[repoIdx]), arg.numItems)
              IN /\ allIssues' = st.items
                 /\ allUsers' = st.acc.users
                 /\ userHeap' = st.acc.heap
                 /\ addLog' = addLog
                 /\ IF st.cut \/ NextPage = 0
                    THEN /\ fetchLog' =
                              Append(fetchLog, [arg |-> repoIdx, kind |-> "Issues",
                                                err |-> FALSE, n |-> st.n])
                         /\ pc' = "recentMain"
                         /\ fetch' = None
                    ELSE /\ fetch' = [fetch EXCEPT !.page = NextPage, !.n = st.n]
                         /\ UNCHANGED <<pc, fetchLog>>
  /\ UNCHANGED <<allPRs, user, idx, repoVars, userVars, callVars, twiceVars,
                 listVars, repos, repoIdx>>

\* The loop over repos is over: main prints the two collections, and
\* Items.String sorts each in place.
RecentPrint ==
  /\ pc = "recentMain"
  /\ repoIdx = Len(repos)
  /\ \E sorted \in SortSlice(allPRs, [k \in 1..Len(allPRs) |-> k]) :
       allPRs' = [k \in 1..Len(allPRs) |-> allPRs[sorted[k]]]
  /\ \E sorted \in SortSlice(allIssues, [k \in 1..Len(allIssues) |-> k]) :
       allIssues' = [k \in 1..Len(allIssues) |-> allIssues[sorted[k]]]
  /\ pc' = "recentDone"
  /\ UNCHANGED <<user, idx, repoVars, userVars, auxVars>>

NextRecent == RecentArg \/ RecentPRPage \/ RecentIssuePage \/ RecentPrint

SpecRecent == InitRecent /\ [][NextRecent]_vars

\* ---- properties -----------------------------------------------------------
\* The specification's contains(t): strictly after start, strictly before end.
InPeriod(t) == period.Start < t /\ t < period.End

\* The number of times item k is listed in the bucket.
Count(bucket, k) == Cardinality({j \in 1..Len(bucket) : bucket[j] = k})

In(bucket, k) == \E j \in 1..Len(bucket) : bucket[j] = k

\* The comments of item i whose createdAt is in the period.
CommentsIn(i) == {c \in 1..Len(i.Comments) : InPeriod(i.Comments[c].CreatedAt)}

Touched(i) == InPeriod(i.CreatedAt) \/ CommentsIn(i) # {}

InNoRepoBucket(k) ==
  ~In(mergedPRs, k) /\ ~In(closedIssues, k) /\ ~In(updatedItems, k)

RECURSIVE SumFn(_, _)
SumFn(f, S) ==
  IF S = {} THEN 0
  ELSE LET x == CHOOSE y \in S : TRUE IN f[x] + SumFn(f, S \ {x})

\* C1: in repository mode every item is listed at most once over the three
\* buckets mergedPRs, closedIssues and updatedItems together, at every point
\* of the pass and after the report is printed.
C1_AtMostOneBucket ==
  \A k \in 1..Len(allItems) :
    Count(mergedPRs, k) + Count(closedIssues, k) + Count(updatedItems, k) <= 1

\* A finished pass over a merged PR that was closed and touched in the period
\* and an issue that was touched and not closed: each is listed exactly once.
C1_Witness ==
  /\ pc = "done"
  /\ \E k \in 1..Len(allItems) :
       /\ allItems[k].PR /\ allItems[k].Merged
       /\ InPeriod(allItems[k].ClosedAt) /\ Touched(allItems[k])
       /\ Count(mergedPRs, k) = 1 /\ Count(updatedItems, k) = 0
  /\ \E k \in 1..Len(allItems) :
       /\ ~allItems[k].PR
       /\ ~InPeriod(allItems[k].ClosedAt) /\ Touched(allItems[k])
       /\ Count(updatedItems, k) = 1

\* C2: every item the pass has handled whose closedAt is in the period is in
\* exactly the bucket its kind selects: a merged PR in mergedPRs, a PR that is
\* not merged in updatedItems, an issue in closedIssues; whether it was
\* created or commented on in the period plays no part.
C2_ClosedRouting ==
  \A k \in 1..idx :
    LET i == allItems[k]
    IN InPeriod(i.ClosedAt) =>
         /\ In(mergedPRs, k) <=> (i.PR /\ i.Merged)
         /\ In(updatedItems, k) <=> (i.PR /\ ~i.Merged)
         /\ In(closedIssues, k) <=> ~i.PR

\* A finished pass over a closed, unmerged, untouched PR (listed as updated)
\* and a closed issue that was also touched (listed as closed).
C2_Witness ==
  /\ pc = "done"
  /\ \E k \in 1..Len(allItems) :
       /\ allItems[k].PR /\ ~allItems[k].Merged
       /\ InPeriod(allItems[k].ClosedAt) /\ ~Touched(allItems[k])
       /\ In(updatedItems, k)
  /\ \E k \in 1..Len(allItems) :
       /\ ~allItems[k].PR
       /\ InPeriod(allItems[k].ClosedAt) /\ Touched(allItems[k])
       /\ In(closedIssues, k)

\* C3: every item the pass has handled whose closedAt is not in the period is
\* in updatedItems exactly when it was created or commented on in the period,
\* and is never in mergedPRs or closedIssues; so an item with no creation, no
\* closing and no comment in the period is in no bucket.
C3_NotClosedRouting ==
  \A k \in 1..idx :
    LET i == allItems[k]
    IN ~InPeriod(i.ClosedAt) =>
         /\ In(updatedItems, k) <=> Touched(i)
         /\ ~In(mergedPRs, k)
         /\ ~In(closedIssues, k)

\* A finished pass over an item only commented on in the period (updated) and
\* an item with nothing in the period (in no bucket).
C3_Witness ==
  /\ pc = "done"
  /\ \E k \in 1..Len(allItems) :
       /\ ~InPeriod(allItems[k].ClosedAt) /\ ~InPeriod(allItems[k].CreatedAt)
       /\ CommentsIn(allItems[k]) # {}
       /\ In(updatedItems, k)
  /\ \E k \in 1..Len(allItems) :
       /\ ~InPeriod(allItems[k].ClosedAt) /\ ~Touched(allItems[k])
       /\ allItems[k].Comments # << >>
       /\ InNoRepoBucket(k)

\* C4: while the pass runs and when it ends, contributions is the number of
\* comments in the period plus the number of items created in the period,
\* over the items handled so far; a merge adds nothing.
C4_Contributions ==
  pc # "panic" =>
    contributions =
      SumFn([k \in 1..idx |->
               Cardinality(CommentsIn(allItems[k]))
               + (IF InPeriod(allItems[k].CreatedAt) THEN 1 ELSE 0)],
            1..idx)

\* A finished pass over a PR created, commented on twice and merged (by a
\* known user) in the period: three contributions.
C4_Witness ==
  /\ pc = "done"
  /\ \E k \in 1..Len(allItems) :
       /\ allItems[k].PR /\ allItems[k].Merged /\ allItems[k].MergedBy # Nil
       /\ InPeriod(allItems[k].ClosedAt) /\ InPeriod(allItems[k].CreatedAt)
       /\ Cardinality(CommentsIn(allItems[k])) = 2
       /\ In(mergedPRs, k)
  /\ contributions = 3

\* C5: while the pass runs and when it ends, contributors holds exactly the
\* authors of the comments in the period, the creators of the items created
\* in the period and the mergedBy users of the merged PRs closed in the
\* period, over the items handled so far.
C5_Contributors ==
  pc # "panic" =>
    contributors =
      UNION {{allItems[k].Comments[c].User : c \in CommentsIn(allItems[k])}
             \cup (IF InPeriod(allItems[k].CreatedAt)
                   THEN {allItems[k].CreatedBy} ELSE {})
             \cup (IF /\ allItems[k].PR /\ allItems[k].Merged
                      /\ InPeriod(allItems[k].ClosedAt)
                      /\ allItems[k].MergedBy # Nil
                   THEN {allItems[k].MergedBy} ELSE {}) : k \in 1..idx}

\* A finished pass whose only contribution is a comment by someone else than
\* the item's creator: the commenter is a contributor, the creator is not.
C5_Witness ==
  /\ pc = "done"
  /\ \E k \in 1..Len(allItems) : \E c \in CommentsIn(allItems[k]) :
       /\ allItems[k].Comments[c].User # allItems[k].CreatedBy
       /\ allItems[k].Comments[c].User \in contributors
       /\ allItems[k].CreatedBy \notin contributors

\* C6: users holds the creator and every comment author of every item the
\* pass has handled, whatever the timestamps of the item.
C6_GlobalUsers ==
  \A k \in 1..idx :
    /\ allItems[k].CreatedBy \in users
    /\ \A c \in 1..Len(allItems[k].Comments) : allItems[k].Comments[c].User \in users

\* A finished pass over an item that is in no bucket and whose creator and
\* commenter are different users, both recorded.
C6_Witness ==
  /\ pc = "done"
  /\ \E k \in 1..Len(allItems) :
       /\ InNoRepoBucket(k)
       /\ allItems[k].Comments # << >>
       /\ allItems[k].Comments[1].User # allItems[k].CreatedBy
       /\ {allItems[k].CreatedBy, allItems[k].Comments[1].User} \subseteq users
  /\ contributors = {}

\* C7: while the pass runs and when it ends, the two opened counters and the
\* lengths of mergedPRs and closedIssues are the numbers of PRs and issues
\* created in the period, of merged PRs closed in the period and of issues
\* closed in the period, over the items handled so far.
C7_Counters ==
  pc # "panic" =>
    /\ openedPRsCount =
         Cardinality({k \in 1..idx : allItems[k].PR /\ InPeriod(allItems[k].CreatedAt)})
    /\ openedIssuesCount =
         Cardinality({k \in 1..idx : ~allItems[k].PR /\ InPeriod(allItems[k].CreatedAt)})
    /\ Len(mergedPRs) =
         Cardinality({k \in 1..idx : /\ allItems[k].PR /\ allItems[k].Merged
                                     /\ InPeriod(allItems[k].ClosedAt)})
    /\ Len(closedIssues) =
         Cardinality({k \in 1..idx : ~allItems[k].PR /\ InPeriod(allItems[k].ClosedAt)})

\* A finished pass over an issue created before the period and closed in it
\* and a PR created in the period: one closed issue, no opened issue, one
\* opened PR.
C7_Witness ==
  /\ pc = "done"
  /\ \E k \in 1..Len(allItems) :
       /\ ~allItems[k].PR
       /\ allItems[k].CreatedAt < period.Start /\ InPeriod(allItems[k].ClosedAt)
  /\ \E k \in 1..Len(allItems) :
       allItems[k].PR /\ InPeriod(allItems[k].CreatedAt)
  /\ openedIssuesCount = 0 /\ openedPRsCount = 1 /\ Len(closedIssues) = 1

\* C8: neither report ever fails: no pass ends in a nil dereference.
C8_NeverPanics == pc # "panic"

\* C9: in user mode no PR is listed more than once over userPRs and
\* reviewedPRs together, and no issue more than once over userIssues and
\* commentIssues together, at every point of the pass and after the report
\* is printed.
C9_UserBucketsExclusive ==
  /\ \A k \in 1..Len(allPRs) : Count(userPRs, k) + Count(reviewedPRs, k) <= 1
  /\ \A k \in 1..Len(allIssues) : Count(userIssues, k) + Count(commentIssues, k) <= 1

\* The comments of item i in the period that the target user wrote.
UserCommentsIn(i) == {c \in CommentsIn(i) : i.Comments[c].User = user}

\* A finished pass over a PR of someone else on which the user commented
\* twice in the period, and an issue the user opened in the period.
C9_Witness ==
  /\ pc = "done"
  /\ \E k \in 1..Len(allPRs) :
       /\ Cardinality(UserCommentsIn(allPRs[k])) = 2
       /\ Count(reviewedPRs, k) = 1 /\ Count(userPRs, k) = 0
  /\ \E k \in 1..Len(allIssues) :
       /\ InPeriod(allIssues[k].CreatedAt) /\ allIssues[k].CreatedBy = user
       /\ Count(userIssues, k) = 1 /\ Count(commentIssues, k) = 0

\* The number of PRs the loop over allPRs has handled.
PRsHandled ==
  IF pc = "userPRs" THEN idx
  ELSE IF pc \in {"userIssues", "done"} THEN Len(allPRs) ELSE 0

\* C10: every PR the pass has handled is in userPRs exactly when it was
\* created in the period by the target user, and in reviewedPRs exactly when
\* it is not in userPRs and either it was closed in the period with the
\* target user as mergedBy, or the target user commented on it in the period.
C10_UserPRs ==
  \A k \in 1..PRsHandled :
    LET pr == allPRs[k]
        mine == InPeriod(pr.CreatedAt) /\ pr.CreatedBy = user
        reviewed == \/ InPeriod(pr.ClosedAt) /\ pr.MergedBy # Nil /\ pr.MergedBy = user
                    \/ UserCommentsIn(pr) # {}
    IN /\ In(userPRs, k) <=> mine
       /\ In(reviewedPRs, k) <=> (~mine /\ reviewed)

\* A finished pass over a PR that someone else opened in the period and merged
\* in the period, and on which the target user commented in the period.
C10_Witness ==
  /\ pc = "done"
  /\ \E k \in 1..Len(allPRs) :
       /\ InPeriod(allPRs[k].CreatedAt) /\ allPRs[k].CreatedBy # user
       /\ InPeriod(allPRs[k].ClosedAt) /\ allPRs[k].MergedBy \notin {Nil, user}
       /\ UserCommentsIn(allPRs[k]) # {}
       /\ In(reviewedPRs, k) /\ ~In(userPRs, k)

\* The number of issues the loop over allIssues has handled.
IssuesHandled ==
  IF pc = "userIssues" THEN idx
  ELSE IF pc = "done" THEN Len(allIssues) ELSE 0

\* C11: every issue the pass has handled is in userIssues exactly when it was
\* created in the period by the target user, and in commentIssues exactly
\* when it is not in userIssues and the target user wrote a comment on it in
\* the period; an issue that was only closed in the period is in neither.
C11_UserIssues ==
  \A k \in 1..IssuesHandled :
    LET i == allIssues[k]
        mine == InPeriod(i.CreatedAt) /\ i.CreatedBy = user
    IN /\ In(userIssues, k) <=> mine
       /\ In(commentIssues, k) <=> (~mine /\ UserCommentsIn(i) # {})

\* A finished pass over an issue that the target user opened before the
\* period and that was closed in the period, with comments of other users
\* only: the issue is in neither bucket.
C11_Witness ==
  /\ pc = "done"
  /\ \E k \in 1..Len(allIssues) :
       /\ allIssues[k].CreatedBy = user /\ allIssues[k].CreatedAt < period.Start
       /\ InPeriod(allIssues[k].ClosedAt)
       /\ CommentsIn(allIssues[k]) # {} /\ UserCommentsIn(allIssues[k]) = {}
       /\ ~In(userIssues, k) /\ ~In(commentIssues, k)

\* C12: the registry holds exactly one User per distinct login added; every
\* Add for a login returns the instance the first Add for that login
\* returned, and Adds for different logins return different instances with
\* different ids.
C12_OneUserPerLogin ==
  LET added == {addLog[k].u.Login : k \in 1..Len(addLog)}
  IN /\ DOMAIN allUsers = added
     /\ Len(userHeap) = Cardinality(added)
     /\ \A l \in added : userHeap[allUsers[l]].ID = l
     /\ \A j, k \in 1..Len(addLog) :
          /\ addLog[j].u.Login = addLog[k].u.Login
               => addLog[j].ret = addLog[k].ret
          /\ addLog[j].u.Login # addLog[k].u.Login
               => /\ addLog[j].ret # addLog[k].ret
                  /\ userHeap[addLog[j].ret].ID # userHeap[addLog[k].ret].ID
     /\ \A k \in 1..Len(addLog) : addLog[k].ret = allUsers[addLog[k].u.Login]

\* Two Adds for one login with different URLs, around an Add for another
\* login.
C12_Witness ==
  /\ Len(addLog) >= 3
  /\ addLog[1].u.Login = addLog[3].u.Login
  /\ addLog[1].u.HTMLURL # addLog[3].u.HTMLURL
  /\ addLog[2].u.Login # addLog[1].u.Login
  /\ addLog[1].ret = addLog[3].ret /\ addLog[2].ret # addLog[1].ret

\* C14: Match(t) is true exactly when t is strictly after the start and
\* strictly before the end of the period; it is false at either boundary
\* instant.
C14_MatchStrict ==
  pc = "MatchReturned" => (ret.val <=> (arg.Start < arg.t /\ arg.t < arg.End))

\* Match has returned false for the end instant of a non-empty period.
C14_Witness ==
  /\ pc = "MatchReturned"
  /\ arg.Start < arg.End /\ arg.t = arg.End
  /\ ~ret.val

\* Two integer fields joined by a "-".
TwoIntegerFields(str) ==
  \E k \in 1..Len(str) :
    /\ str[k] = "-"
    /\ AtoiOK(SubSeq(str, 1, k - 1))
    /\ AtoiOK(SubSeq(str, k + 1, Len(str)))

\* C19: for every input that is not two integer fields joined by the
\* separator, a one-field string and a non-numeric field included,
\* NewPeriodFromMonth and NewPeriodFromWeek return an error and no Period;
\* they never crash.
C19_MalformedIsError ==
  /\ pc \in {"NewPeriod", "PeriodReturned", "back", "fwdYear", "fwdWeek", "panic"}
  /\ arg # None
  /\ ~TwoIntegerFields(arg.in)
  => /\ pc \in {"NewPeriod", "PeriodReturned"}
     /\ pc = "PeriodReturned" => ret.kind = "error"

\* The number of ISO weeks of a year: the week of its 28 December.
WeeksIn(year) == ISOWeek(DateDay(year, 12, 28)).week

\* C20: for every valid year and ISO week, NewPeriodFromWeek returns a
\* Period whose Start is 00:00:00 of the Monday of that ISO week of that ISO
\* year and whose End is exactly 7 days after Start.
C20_WeekPeriod ==
  /\ pc = "PeriodReturned" /\ scan # None
  /\ scan.week \in 1..WeeksIn(scan.year)
  => /\ ret.kind = "ok"
     /\ Weekday(ret.p.Start.day) = Monday /\ ret.p.Start.sec = 0
     /\ ISOWeek(ret.p.Start.day) = [year |-> scan.year, week |-> scan.week]
     /\ ret.p.End = [day |-> ret.p.Start.day + 7, sec |-> 0]

\* NewPeriodFromWeek has returned the period of week 53 of 2020, which starts
\* on 28 December 2020.
C20_Witness ==
  /\ pc = "PeriodReturned" /\ scan # None
  /\ arg.in = <<"2", "0", "2", "0", "-", "5", "3">>
  /\ ret.kind = "ok"
  /\ ret.p.Start.day = DateDay(2020, 12, 28)

C13_RegistryOnlyGrows ==
  [][\A l \in DOMAIN allUsers :
       /\ l \in DOMAIN allUsers'
       /\ allUsers'[l] = allUsers[l]
       /\ allUsers[l] \in 1..Len(userHeap')
       /\ userHeap'[allUsers[l]] = userHeap[allUsers[l]]]_vars

\* A finished run that fetched a PR opened by alice and merged by bob, then
\* an issue opened by alice whose raw user carries another URL: alice is
\* still the first User allocated, with the URL of the PR response.
C13_Witness ==
  /\ pc = "done"
  /\ Len(allPRs) = 1 /\ Len(allIssues) = 1
  /\ allPRs[1].CreatedBy = "alice" /\ allPRs[1].MergedBy = "bob"
  /\ allIssues[1].CreatedBy = "alice"
  /\ DOMAIN allUsers = {"alice", "bob"}
  /\ allUsers["alice"] = 1
  /\ userHeap[1] = [ID |-> "alice", URL |-> "url1"]

\* C17: when the fetch of the PRs or of the issues of a repository fails,
\* the run goes on, and no item of the failed fetch is in the collections.
C17_FailedFetchOmitted ==
  \A k \in 1..Len(fetchLog) : fetchLog[k].err => fetchLog[k].n = 0

\* C18: a positional argument without "/" is logged and skipped: the run
\* does not stop at it.
C18_MalformedSkipped ==
  pc = "panic" =>
    ~(repoIdx < Len(repos) /\ Len(SplitN(repos[repoIdx + 1], "/")) # 2)

\* C16: rate limiting alone never makes doListOp return an error or skip a
\* page: no request is rejected for want of quota, so no doListOp call
\* returns an error.
C16_RateLimitOnlyDelays ==
  /\ \A k \in 1..Len(reqLog) : reqLog[k].ok
  /\ \A k \in 1..Len(listRet) : ~listRet[k].err

\* The number of days of a month of the calendar.
CalendarDays(year, month) ==
  IF month = 2
  THEN (IF (year % 4 = 0 /\ year % 100 # 0) \/ year % 400 = 0 THEN 29 ELSE 28)
  ELSE IF month \in {4, 6, 9, 11} THEN 30 ELSE 31

\* C21: for every year and every month 1..12, NewPeriodFromMonth returns a
\* Period whose Start is 00:00:00 of day 1 of the month and whose End is
\* 23:59:59 of its last calendar day: the next day is day 1 of the next
\* month, and February has 29 days in leap years and 28 otherwise.
C21_MonthPeriod ==
  /\ pc = "PeriodReturned"
  /\ arg.fn = "NewPeriodFromMonth"
  /\ ParseFields(arg.in).kind = "ok"
  /\ ParseFields(arg.in).n \in 1..12
  => LET year == ParseFields(arg.in).year
         month == ParseFields(arg.in).n
         day1 == DaysBeforeYear(year) + DaysBeforeMonth(year, month)
     IN /\ ret.kind = "ok"
        /\ ret.p.Start = [day |-> day1, sec |-> 0]
        /\ ret.p.End = [day |-> day1 + CalendarDays(year, month) - 1,
                        sec |-> 86399]

\* NewPeriodFromMonth has returned the period of February 2020, which ends
\* on the 29th, 59 days after 1 January 2020.
C21_Witness ==
  /\ pc = "PeriodReturned"
  /\ arg = [fn |-> "NewPeriodFromMonth", in |-> <<"2", "0", "2", "0", "-", "0", "2">>]
  /\ ret.kind = "ok"
  /\ ret.p.Start.day = DaysBeforeYear(2020) + 31
  /\ ret.p.End = [day |-> DaysBeforeYear(2020) + 59, sec |-> 86399]

\* C22: the day-by-day scan of firstDayOfISOWeek terminates for every
\* (year, week), after at most about 370 day steps: no scan has taken more
\* than 400 steps.
C22_ScanBounded ==
  scan # None => scan.steps <= 400

\* C23: a constructed PR item is Merged whenever the raw record has a
\* mergedAt, even if the raw merged flag is absent or false; when mergedAt is
\* absent, Merged equals the raw flag, false if the flag is absent.
C23_MergedFromMergedAt ==
  pc = "ItemReturned" =>
    /\ arg.pr.MergedAt # NoTime => ret.item.Merged
    /\ arg.pr.MergedAt = NoTime => (ret.item.Merged <=> arg.pr.Merged = "true")

\* An item was built from a raw record that has a mergedAt and the merged
\* flag false, and it is Merged.
C23_Witness ==
  /\ pc = "ItemReturned"
  /\ arg.pr.MergedAt # NoTime /\ arg.pr.Merged = "false"
  /\ ret.item.Merged

\* The report has begun: main has called repoReport or userReport.
ReportBegun == pc \in {"repoReport", "userPRs", "userIssues", "done"}

\* C24: all writes to the identity registry and to the item collections
\* happen in the fetch phase, which ends before aggregation starts: once
\* repoReport or userReport has begun, no step adds to the registry or
\* appends to the PR or issue collection, the fetch is never resumed, and the
\* registry and the fields of every fetched item stay as they are.
C24_ReportWritesNothing ==
  [][ReportBegun =>
       /\ allUsers' = allUsers /\ userHeap' = userHeap
       /\ allPRs' = allPRs /\ allIssues' = allIssues
       /\ pc' \in {"repoReport", "userPRs", "userIssues", "done", "panic"}]_vars

\* A run has fetched a pull request and registered a user, and its
\* repository report has classified the pull request and is printed.
C24_Witness ==
  /\ pc = "done" /\ repos # << >>
  /\ allPRs # << >> /\ userHeap # << >>
  /\ user = "" /\ updatedItems # << >>

\* C25: rendering a bucket lists each item of the bucket exactly once,
\* ordered by repo name ascending (lexicographic) and, within one repo, by
\* number ascending, whatever order the items were appended in.
C25_RenderSorted ==
  pc = "StringReturned" =>
    LET n == Len(arg.all)
        item(k) == arg.all[ret.lines[k]]
    IN /\ Len(ret.lines) = n
       /\ \A p \in 1..n : Cardinality({k \in 1..n : ret.lines[k] = p}) = 1
       /\ \A j, k \in 1..n :
            j < k =>
              \/ BytesLess(RepoBytes[item(j).Repo], RepoBytes[item(k).Repo])
              \/ /\ item(j).Repo = item(k).Repo
                 /\ item(j).Number <= item(k).Number

\* A bucket appended in the order o/ra#1, o/r#2, a/z#2 is rendered in the
\* order a/z#2, o/r#2, o/ra#1.
C25_Witness ==
  /\ pc = "StringReturned"
  /\ arg.all = <<[Repo |-> "o/ra", Number |-> 1], [Repo |-> "o/r", Number |-> 2],
                 [Repo |-> "a/z", Number |-> 2]>>
  /\ ret.lines = <<3, 2, 1>>

\* All three timestamps the item of a raw pull request gets are before the
\* cutoff.
AllBeforeCutoff(pr) ==
  /\ TimeOf(pr.CreatedAt) < period.Start
  /\ TimeOf(pr.UpdatedAt) < period.Start
  /\ TimeOf(pr.ClosedAt) < period.Start

\* The position in a sequence of raw pull requests of the first whose
\* timestamps are all before the cutoff, and the length plus one if there is
\* none.
FirstOld(prs) ==
  LET old == {k \in 1..Len(prs) : AllBeforeCutoff(prs[k])}
  IN IF old = {} THEN Len(prs) + 1
     ELSE CHOOSE k \in old : \A j \in old : k <= j

\* C26: GetPRs with a cutoff stops at the first fetched PR whose createdAt,
\* updatedAt and closedAt are all before the cutoff: that PR is not
\* appended, it is on the last page requested, and the collection holds
\* exactly the PRs fetched before it, in fetch order; so every PR in the
\* collection has a createdAt, updatedAt or closedAt not before the cutoff.
C26_StopsAtCutoff ==
  pc \in {"GetPRsCall", "GetPRsReturned"} =>
    LET fetched == Fetched(reqLog)
        stop == FirstOld(fetched)
    IN /\ Len(allPRs) = stop - 1
       /\ \A k \in 1..Len(allPRs) :
            /\ allPRs[k].Number = fetched[k].Number
            /\ allPRs[k].CreatedAt = fetched[k].CreatedAt
            /\ allPRs[k].ClosedAt = TimeOf(fetched[k].ClosedAt)
            /\ ~AllBeforeCutoff(fetched[k])
       /\ stop <= Len(fetched) =>
            /\ pc = "GetPRsReturned"
            /\ stop > Len(fetched) - Len(reqLog[Len(reqLog)].prs)

\* GetPRs has returned at the second pull request of its first page, whose
\* timestamps are all before the cutoff; the collection holds the first,
\* which was created at the cutoff.
C26_Witness ==
  /\ pc = "GetPRsReturned"
  /\ Len(reqLog) = 1 /\ reqLog[1].ok /\ Len(reqLog[1].prs) = 2
  /\ AllBeforeCutoff(reqLog[1].prs[2])
  /\ Len(allPRs) = 1 /\ allPRs[1].CreatedAt = period.Start

\* The last call of op returned a nil response or a response with
\* NextPage 0.
LastPageSeen ==
  /\ reqLog # << >>
  /\ LET last == reqLog[Len(reqLog)]
     IN last.kind = "nil" \/ (last.kind = "resp" /\ last.next = 0)

\* C27: doListOp calls op first with page 1 and then, after each non-nil
\* response, with exactly the NextPage of that response; as soon as a
\* response has NextPage 0 or op returns a nil response it makes no further
\* call and returns nil, so it terminates once the server reports NextPage 0.
C27_FollowsNextPage ==
  /\ [](pc \in {"doListOp", "doListResp", "doListReturned"} =>
         /\ reqLog # << >> => reqLog[1].page = 1
         /\ \A k \in 2..Len(reqLog) :
              /\ reqLog[k - 1].kind = "resp" /\ reqLog[k - 1].next # 0
              /\ reqLog[k].page = reqLog[k - 1].next
         /\ pc = "doListOp" /\ reqLog # << >> =>
              listPage = reqLog[Len(reqLog)].next
         /\ LastPageSeen => pc \in {"doListResp", "doListReturned"}
         /\ LastPageSeen /\ pc = "doListReturned" =>
              listRet = <<[kind |-> fetch.kind, err |-> "nil"]>>)
  /\ (pc = "doListResp" /\ LastPageSeen) ~> (pc = "doListReturned")

\* doListOp has called op for page 1 and then for page 1 again, as the
\* first response said, and has returned nil after a response with NextPage 0.
C27_Witness ==
  /\ pc = "doListReturned"
  /\ Len(reqLog) = 2
  /\ reqLog[1].next = 1 /\ reqLog[2].page = 1
  /\ reqLog[2].kind = "resp" /\ reqLog[2].next = 0
  /\ listRet = <<[kind |-> fetch.kind, err |-> "nil"]>>

\* The items the calls of op in a log appended, in order.
RECURSIVE Appended(_)
Appended(log) ==
  IF log = << >> THEN << >>
  ELSE Appended(SubSeq(log, 1, Len(log) - 1)) \o log[Len(log)].items

\* C28: if op returns an error on some page, doListOp returns that same
\* error at once and calls op for no later page, and the items op appended
\* on the earlier pages stay in the caller's collection.
C28_ErrorReturned ==
  /\ [](pc \in {"doListOp", "doListResp", "doListReturned"} =>
         /\ \A k \in 1..Len(reqLog) :
              reqLog[k].kind = "err" =>
                /\ k = Len(reqLog)
                /\ pc \in {"doListResp", "doListReturned"}
                /\ pc = "doListResp" => listResp.kind = "err"
                /\ pc = "doListReturned" =>
                     /\ Len(listRet) = 1
                     /\ listRet[1].err \in Errors
         /\ (IF fetch.kind = "PRs" THEN allPRs ELSE allIssues) = Appended(reqLog))
  /\ [][pc = "doListResp" /\ listResp.kind = "err" =>
          /\ pc' = "doListReturned"
          /\ listRet' = <<[kind |-> fetch.kind, err |-> listResp.err]>>
          /\ UNCHANGED <<allPRs, allIssues, reqLog>>]_vars

\* GetIssues has appended an issue on page 1, the request of page 2 failed
\* with e2, and doListOp has returned e2 with the issue still in the
\* collection.
C28_Witness ==
  /\ pc = "doListReturned"
  /\ fetch.kind = "Issues"
  /\ Len(reqLog) = 2 /\ reqLog[2].kind = "err" /\ reqLog[2].page = 2
  /\ listRet = <<[kind |-> "Issues", err |-> "e2"]>>
  /\ Len(allIssues) = 1

\* C29: at every point of the repository-mode pass the contributor set is a
\* subset of the user set: every user counted as a contributor also has an
\* entry in the user map used for the link appendix.
C29_ContributorsAreUsers ==
  contributors \subseteq users

\* C29, amended: the contributor set is a subset of the user set at every
\* point of the pass but between the two writes for one comment, where the
\* author of that comment may be the one contributor missing from the user
\* map; so it is a subset whenever an iteration of either loop ends and when
\* the links are printed.
C29_ContributorsAreUsersBetweenComments ==
  /\ pc # "stepCommentUser" => contributors \subseteq users
  /\ pc = "stepCommentUser" =>
       contributors \subseteq
         users \cup {allItems[idx + 1].Comments[arg.c].User}

\* The report is printed after a pass that counted as a contributor the
\* author of a comment who created no item.
C29_Witness ==
  /\ pc = "done"
  /\ \E k \in 1..Len(allItems) :
       \E u \in contributors :
         /\ \A j \in 1..Len(allItems) : allItems[j].CreatedBy # u
         /\ \E c \in 1..Len(allItems[k].Comments) :
              allItems[k].Comments[c].User = u

\* C30: in the most-recent-N mode (flag -i N), when the fetch phase is over
\* the PR collection holds at most N items and the issue collection holds
\* at most N items, for any number of repository arguments.
C30_AtMostNumItems ==
  (pc = "recentMain" /\ repoIdx = Len(repos)) \/ pc = "recentDone" =>
    /\ Len(allPRs) <= arg.numItems
    /\ Len(allIssues) <= arg.numItems

====
